---- MODULE Spec2Model ----
(***************************************************************************)
(* SpindleFlow: the workflow engine (runWorkflow and its sequential and    *)
(* parallel strategies), the shared ContextStore and the prompt builder.   *)
(* One behaviour is one call of runWorkflow on a freshly built context.    *)
(* Strings are sequences of tokens; "\n" is the newline token.             *)
(***************************************************************************)
EXTENDS Naturals, Integers, Sequences, FiniteSets, TLC

(* ------------------------------ bounds -------------------------------- *)
\* longest step list of a sequential workflow
MaxSteps == 3
\* longest branch list of a parallel workflow
MaxBranches == 2
\* largest max_iterations of a feedback loop
MaxIterations == 2

(* --------------------------- the environment -------------------------- *)
\* agent ids the AgentRegistry holds
Registered == {"A", "B", "C"}
\* agent ids a workflow config may name ("X" is not registered)
AgentIds == Registered \cup {"X"}
\* texts the backend may answer with
Outputs == {<<"o1">>, <<"o2">>}
\* the text of a call that has not been answered
NoOutput == <<>>
\* the run's user input
UserInput == <<"u">>

\* AgentRegistry.getAgent(id) for a registered id: the Agent record.
\* "A" declares no tools, "B" declares one tool, "C" declares an empty list.
getAgent(id) ==
  [id    |-> id,
   role  |-> CASE id = "A" -> "rA" [] id = "B" -> "rB" [] OTHER -> "rC",
   goal  |-> CASE id = "A" -> "gA" [] id = "B" -> "gB" [] OTHER -> "gC",
   tools |-> IF id = "B" THEN <<"filesystem">> ELSE <<>>]

\* AgentRegistry.getAgent(id) raises for an id that is not registered
getAgentThrows(id) == id \notin Registered

SeqsUpTo(S, n) == UNION {[1..k -> S] : k \in 0..n}

\* RootConfig.workflow as runWorkflow reads it, and whether an MCPToolRegistry
\* is passed along
Configs ==
  {[type |-> "sequential", steps |-> s, branches |-> <<>>, then |-> "", mcpRegistry |-> m] :
      s \in SeqsUpTo(AgentIds, MaxSteps), m \in BOOLEAN}
  \cup
  {[type |-> "parallel", steps |-> <<>>, branches |-> b, then |-> t, mcpRegistry |-> m] :
      b \in SeqsUpTo(AgentIds, MaxBranches), t \in AgentIds, m \in BOOLEAN}
  \cup
  {[type |-> "hierarchical", steps |-> <<>>, branches |-> <<>>, then |-> "", mcpRegistry |-> m] :
      m \in BOOLEAN}

\* workflow.then.feedback_loop where a configuration carries one
FeedbackLoops ==
  {[enabled |-> e, max_iterations |-> k] : e \in BOOLEAN, k \in 1..MaxIterations}

\* the configurations of the runs that reach the feedback loop: parallel
\* workflows without a feedback_loop and with one, next to sequential ones
FeedbackConfigs ==
  {c \in Configs : /\ c.mcpRegistry
                   /\ c.type = "sequential" => c.steps \in {<<>>, <<"A">>, <<"A", "B">>}
                   /\ c.type = "parallel" =>
                        c.branches \in {<<"A">>, <<"A", "B">>} /\ c.then \in {"C", "A"}}
  \cup
  {[type |-> "parallel", steps |-> <<>>, branches |-> b, then |-> t, mcpRegistry |-> TRUE,
    feedback_loop |-> f] :
      b \in {<<"A">>, <<"A", "B">>}, t \in {"C", "A"}, f \in FeedbackLoops}

(* ------------------------------ state --------------------------------- *)
VARIABLES
  config,        \* the workflow configuration of this run
  context,       \* ContextStore: [userInput, outputs, timeline]
  pc,            \* where the run is: idle, seq, branches, then, done, failed
  err,           \* the error runWorkflow rejected with: none, config, backend
  stepIdx,       \* sequential: index of the step whose backend call is awaited
  branchPromises,\* parallel: the promises handed to Promise.all, one per branch
  calls,         \* every backend call issued so far, in issue order
  now,           \* Date.now()
  invoked,       \* the strategies runWorkflow has called, in call order
  verdicts       \* feedback loop: the convergence verdict of every finished cycle

\* the state of one generateWithTools call and of the tool registry it uses
VARIABLES
  params,        \* ToolAwareLLMParams of the call: system, user, tools, maxToolCalls
  loop,          \* the call's locals: position, iteration, currentPrompt, toolCalls, ...
  llmLog,        \* every baseLLM.generate call of the run, in order
  toolLog,       \* every MCPToolRegistry.executeTool call of the run, in order
  toolRegistry   \* MCPToolRegistry.tools: tool name -> provider

engineVars == <<config, context, pc, err, stepIdx, branchPromises, calls, invoked, verdicts>>
toolVars == <<params, loop, llmLog, toolLog, toolRegistry>>
VARIABLES
  regHistory,    \* MCPToolRegistry: the providers passed to register, in call order
  regOrder,      \* MCPToolRegistry.tools: the keys of the Map in insertion order
  regCall        \* the last query made on the registry, with what it returned
registryVars == <<regHistory, regOrder, regCall>>
VARIABLES
  isolates,      \* every ivm.Isolate created so far, in creation order
  execs,         \* CodeExecutionTool.execute: the calls, one per caller
  execCount      \* number of execute calls made so far
sandboxVars == <<isolates, execs, execCount>>
VARIABLES
  promptContext, \* the ContextStore passed to buildPrompt
  promptLog      \* the buildPrompt calls made: arguments before and after, result
promptVars == <<promptContext, promptLog>>
VARIABLES
  fsTool,        \* the FilesystemTool instance: workingDirectory, allowedExtensions
  disk,          \* the files on disk: path -> content
  fsLog          \* the execute calls made: params, fs calls issued, result
fsVars == <<fsTool, disk, fsLog>>
laterVars == <<registryVars, sandboxVars, promptVars, fsVars>>
toolsCallVars == <<params, loop, llmLog, toolLog>>
vars == <<config, context, pc, err, stepIdx, branchPromises, calls, now, invoked, verdicts,
          params, loop, llmLog, toolLog, toolRegistry, laterVars>>

(* --------------------------- ContextStore ----------------------------- *)
\* a freshly constructed ContextStore
EmptyContext ==
  [userInput |-> UserInput, outputs |-> [x \in {} |-> NoOutput], timeline |-> <<>>]

TimelineEntry(agent, output, startedAt, endedAt) ==
  [agentId |-> agent.id, role |-> agent.role, output |-> output,
   startedAt |-> startedAt, endedAt |-> endedAt]

\* faulty variant: an agent's earlier timeline entry is replaced, not kept
recordOutputOverwriting(ctx, entry) ==
  [ctx EXCEPT
     !.outputs = [k \in DOMAIN ctx.outputs \cup {entry.agentId} |->
                    IF k = entry.agentId THEN entry.output ELSE ctx.outputs[k]],
     !.timeline = IF \E j \in 1..Len(ctx.timeline) : ctx.timeline[j].agentId = entry.agentId
                  THEN [j \in 1..Len(ctx.timeline) |->
                          IF ctx.timeline[j].agentId = entry.agentId THEN entry
                          ELSE ctx.timeline[j]]
                  ELSE Append(ctx.timeline, entry)]

\* faulty variant: an agent's first output is kept (outputs[id] ??= output)
recordOutputKeepingFirst(ctx, entry) ==
  [ctx EXCEPT
     !.outputs = [k \in DOMAIN ctx.outputs \cup {entry.agentId} |->
                    IF k \in DOMAIN ctx.outputs THEN ctx.outputs[k] ELSE entry.output],
     !.timeline = Append(ctx.timeline, entry)]

\* faulty variant: the record is put at the front of the timeline (unshift)
recordOutputPrepending(ctx, entry) ==
  [ctx EXCEPT
     !.outputs = [k \in DOMAIN ctx.outputs \cup {entry.agentId} |->
                    IF k = entry.agentId THEN entry.output ELSE ctx.outputs[k]],
     !.timeline = <<entry>> \o ctx.timeline]

\* context.outputs[id] = output; context.timeline.push(entry)
recordOutput(ctx, entry) ==
  [ctx EXCEPT
     !.outputs = [k \in DOMAIN ctx.outputs \cup {entry.agentId} |->
                    IF k = entry.agentId THEN entry.output ELSE ctx.outputs[k]],
     !.timeline = Append(ctx.timeline, entry)]

(* --------------------------- PromptBuilder ---------------------------- *)
IsSpace(tok) == tok \in {"\n", " "}

RECURSIVE TrimStart(_)
TrimStart(s) ==
  IF s # <<>> /\ IsSpace(Head(s)) THEN TrimStart(Tail(s)) ELSE s

RECURSIVE TrimEnd(_)
TrimEnd(s) ==
  IF s # <<>> /\ IsSpace(s[Len(s)]) THEN TrimEnd(SubSeq(s, 1, Len(s) - 1)) ELSE s

\* String.prototype.trim on a token sequence
Trim(s) == TrimEnd(TrimStart(s))

\* one "--- role (agentId) ---" block of the previous-outputs section
EntryBlock(entry) ==
  <<"\n", "---", entry.role, "(", entry.agentId, ")", "---", "\n">> \o entry.output \o <<"\n">>

\* faulty variant: the newest record comes first
RECURSIVE EntryBlocksNewestFirst(_)
EntryBlocksNewestFirst(tl) ==
  IF tl = <<>> THEN <<>> ELSE EntryBlocksNewestFirst(Tail(tl)) \o EntryBlock(Head(tl))

RECURSIVE EntryBlocks(_)
EntryBlocks(tl) ==
  IF tl = <<>> THEN <<>> ELSE EntryBlock(Head(tl)) \o EntryBlocks(Tail(tl))

\* faulty variant: the prompt carries the time of the call
buildPromptStamped(agent, ctx) ==
  [system |-> <<"You are acting as:", agent.role, "\n", "at", ToString(now)>>,
   user   |-> Trim(<<"User input:", "\n">> \o ctx.userInput \o <<"\n">>
                   \o (IF Len(ctx.timeline) > 0
                       THEN <<"\n", "Previous agent outputs:", "\n">> \o EntryBlocks(ctx.timeline)
                       ELSE <<>>))]

buildPrompt(agent, ctx) ==
  [system |-> Trim(<<"\n", "You are acting as:", agent.role, "\n", "\n",
                     "Your goal:", "\n", agent.goal, "\n", "\n",
                     "Follow the goal strictly. Be concise, clear, and relevant.", "\n">>),
   user   |-> Trim(<<"User input:", "\n">> \o ctx.userInput \o <<"\n">>
                   \o (IF Len(ctx.timeline) > 0
                       THEN <<"\n", "Previous agent outputs:", "\n">> \o EntryBlocks(ctx.timeline)
                       ELSE <<>>))]

(* ----------------------- buildPrompt as called ------------------------ *)
MaxTimeline == 2
MaxPromptCalls == 2

\* user inputs and agent outputs: plain, ending in a newline, starting with a blank
PromptTexts == {<<"t">>, <<"t", "\n">>, <<" ", "t">>}

\* records a timeline may hold
PromptEntries ==
  {TimelineEntry(getAgent(id), output, 0, 0) : id \in {"A", "B"}, output \in PromptTexts}

\* the contexts buildPrompt is called with
PromptContexts ==
  {[userInput |-> u,
    outputs   |-> [id \in {tl[i].agentId : i \in 1..Len(tl)} |->
                     tl[CHOOSE i \in 1..Len(tl) :
                          /\ tl[i].agentId = id
                          /\ \A j \in 1..Len(tl) : tl[j].agentId = id => j <= i].output],
    timeline  |-> tl] :
      u \in PromptTexts, tl \in SeqsUpTo(PromptEntries, MaxTimeline)}

\* a caller calls buildPrompt(agent, context): it reads its arguments and
\* returns the two texts, assigning to neither argument
BuildPrompt(id) ==
  /\ Len(promptLog) < MaxPromptCalls
  /\ now' = now + 1
  /\ promptContext' = promptContext
  /\ promptLog' = Append(promptLog,
       [agent |-> getAgent(id), context |-> promptContext,
        agentAfter |-> getAgent(id), contextAfter |-> promptContext',
        result |-> buildPrompt(getAgent(id), promptContext)])

(* ----------------------------- backend -------------------------------- *)
\* one llm.generate({system, user, temperature}) issued for `agent`
BackendCall(agent, prompt, phase, idx, startedAt) ==
  [agentId |-> agent.id, system |-> prompt.system, user |-> prompt.user,
   via |-> "generate", phase |-> phase, idx |-> idx,
   startedAt |-> startedAt, endedAt |-> 0, status |-> "pending", output |-> NoOutput]

\* the call resolved with `out` at time t / rejected at time t
Answered(c, out, t) == [c EXCEPT !.status = "ok", !.output = out, !.endedAt = t]
Failed(c, t) == [c EXCEPT !.status = "error", !.endedAt = t]

NoResult == [agentId |-> "", role |-> "", output |-> NoOutput, startedAt |-> 0, endedAt |-> 0]

(* ---------------------- runSequentialWorkflow ------------------------- *)
\* faulty variant: the loop bound is off by one and the last step never runs
SeqIterateSkippingLast(k, ctx, cs, t) ==
  IF k >= Len(config.steps)
  THEN [context |-> ctx, pc |-> "done", err |-> "none", stepIdx |-> k, calls |-> cs]
  ELSE IF getAgentThrows(config.steps[k])
  THEN [context |-> ctx, pc |-> "failed", err |-> "config", stepIdx |-> k, calls |-> cs]
  ELSE LET agent  == getAgent(config.steps[k])
           prompt == buildPrompt(agent, ctx)
       IN [context |-> ctx, pc |-> "seq", err |-> "none", stepIdx |-> k,
           calls |-> Append(cs, BackendCall(agent, prompt, "step", k, t))]

\* The for-loop from the top of iteration k up to its await (or its exit):
\* registry lookup, prompt from the current context, backend call issued.
SeqIterate(k, ctx, cs, t) ==
  IF k > Len(config.steps)
  THEN [context |-> ctx, pc |-> "done", err |-> "none", stepIdx |-> k, calls |-> cs]
  ELSE IF getAgentThrows(config.steps[k])
  THEN [context |-> ctx, pc |-> "failed", err |-> "config", stepIdx |-> k, calls |-> cs]
  ELSE LET agent  == getAgent(config.steps[k])
           prompt == buildPrompt(agent, ctx)
       IN [context |-> ctx, pc |-> "seq", err |-> "none", stepIdx |-> k,
           calls |-> Append(cs, BackendCall(agent, prompt, "step", k, t))]

\* runWorkflow enters runSequentialWorkflow, which runs to its first await
StartSequential ==
  LET r == SeqIterate(1, context, calls, now)
  IN /\ context' = r.context
     /\ pc' = r.pc
     /\ err' = r.err
     /\ stepIdx' = r.stepIdx
     /\ calls' = r.calls
     /\ UNCHANGED <<branchPromises, now>>

\* faulty variant: the next step's prompt is built before this step's output is stored
StepCompleteStale(out) ==
  /\ pc = "seq"
  /\ LET c     == calls[Len(calls)]
         agent == getAgent(config.steps[stepIdx])
         t     == now + 1
         ctx1  == recordOutput(context, TimelineEntry(agent, out, c.startedAt, t))
         cs1   == [calls EXCEPT ![Len(calls)] = Answered(@, out, t)]
         r     == SeqIterate(stepIdx + 1, context, cs1, t)
     IN /\ now' = t
        /\ context' = ctx1
        /\ pc' = r.pc
        /\ err' = r.err
        /\ stepIdx' = r.stepIdx
        /\ calls' = r.calls
        /\ UNCHANGED <<config, branchPromises>>

\* the awaited llm.generate of step stepIdx resolves with `out`: the output is
\* stored, the timeline entry pushed, and the loop goes on to the next step
StepComplete(out) ==
  /\ pc = "seq"
  /\ LET c     == calls[Len(calls)]
         agent == getAgent(config.steps[stepIdx])
         t     == now + 1
         ctx1  == recordOutput(context, TimelineEntry(agent, out, c.startedAt, t))
         cs1   == [calls EXCEPT ![Len(calls)] = Answered(@, out, t)]
         r     == SeqIterate(stepIdx + 1, ctx1, cs1, t)
     IN /\ now' = t
        /\ context' = r.context
        /\ pc' = r.pc
        /\ err' = r.err
        /\ stepIdx' = r.stepIdx
        /\ calls' = r.calls
        /\ UNCHANGED <<config, branchPromises>>

\* faulty variant: the rejection is caught in the loop body and the loop goes
\* on with the next step
StepFailContinuing ==
  /\ pc = "seq"
  /\ LET t   == now + 1
         cs1 == [calls EXCEPT ![Len(calls)] = Failed(@, t)]
         r   == SeqIterate(stepIdx + 1, context, cs1, t)
     IN /\ now' = t
        /\ context' = r.context
        /\ pc' = r.pc
        /\ err' = r.err
        /\ stepIdx' = r.stepIdx
        /\ calls' = r.calls
  /\ UNCHANGED <<config, branchPromises>>

\* the awaited llm.generate of step stepIdx rejects: the error leaves the loop
StepFail ==
  /\ pc = "seq"
  /\ now' = now + 1
  /\ calls' = [calls EXCEPT ![Len(calls)] = Failed(@, now + 1)]
  /\ pc' = "failed"
  /\ err' = "backend"
  /\ UNCHANGED <<config, context, stepIdx, branchPromises>>

(* ----------------------- runParallelWorkflow -------------------------- *)
Pending(call)   == [status |-> "pending", call |-> call, value |-> NoResult]
Rejected(call)  == [status |-> "rejected", call |-> call, value |-> NoResult]
Fulfilled(call, value) == [status |-> "fulfilled", call |-> call, value |-> value]

\* number of branches among the first i whose registry lookup succeeds
Issued(branches, i) ==
  Cardinality({j \in 1..i : ~getAgentThrows(branches[j])})

\* faulty variant: each callback pushes a placeholder entry for its agent
\* before the call, so later branches build their prompt on top of it
mapBranchesSeeingSiblings(branches, ctx, cs, t) ==
  LET n == Len(branches)
      ctxAt(i) == [ctx EXCEPT !.timeline =
                     ctx.timeline \o
                     [k \in 1..Issued(branches, i - 1) |->
                        LET j == CHOOSE j \in 1..n :
                                   ~getAgentThrows(branches[j]) /\ Issued(branches, j) = k
                        IN TimelineEntry(getAgent(branches[j]), NoOutput, t, t)]]
  IN [promises |->
        [i \in 1..n |->
           IF getAgentThrows(branches[i]) THEN Rejected(0)
           ELSE Pending(Len(cs) + Issued(branches, i))],
      calls |->
        cs \o [k \in 1..Issued(branches, n) |->
                 LET i == CHOOSE i \in 1..n :
                            ~getAgentThrows(branches[i]) /\ Issued(branches, i) = k
                     agent == getAgent(branches[i])
                 IN BackendCall(agent, buildPrompt(agent, ctxAt(i)), "branch", i, t)]]

\* faulty variant: the first failing registry lookup ends the map, so the
\* branches declared after it are never started
mapBranchesStopping(branches, ctx, cs, t) ==
  LET n == Len(branches)
      bad == {j \in 1..n : getAgentThrows(branches[j])}
      live(i) == \A j \in bad : i < j
  IN [promises |->
        [i \in 1..n |->
           IF ~live(i) THEN Rejected(0)
           ELSE Pending(Len(cs) + i)],
      calls |->
        cs \o [k \in 1..Cardinality({i \in 1..n : live(i)}) |->
                 LET agent == getAgent(branches[k])
                 IN BackendCall(agent, buildPrompt(agent, ctx), "branch", k, t)]]

\* branches.map(async (agentId) => ...): every callback runs up to its await
\* before map returns. A callback whose registry lookup raises gives a
\* rejected promise; every other callback builds its prompt from the context
\* as it is now and issues its backend call.
mapBranches(branches, ctx, cs, t) ==
  LET n == Len(branches)
  IN [promises |->
        [i \in 1..n |->
           IF getAgentThrows(branches[i]) THEN Rejected(0)
           ELSE Pending(Len(cs) + Issued(branches, i))],
      calls |->
        cs \o [k \in 1..Issued(branches, n) |->
                 LET i == CHOOSE i \in 1..n :
                            ~getAgentThrows(branches[i]) /\ Issued(branches, i) = k
                     agent == getAgent(branches[i])
                 IN BackendCall(agent, buildPrompt(agent, ctx), "branch", i, t)]]

\* faulty variant: Promise.race semantics, the join resolves on the first result
someFulfilled(promises) ==
  \/ Len(promises) = 0
  \/ \E i \in 1..Len(promises) : promises[i].status = "fulfilled"

\* Promise.all resolves: every promise is fulfilled
allFulfilled(promises) ==
  \A i \in 1..Len(promises) : promises[i].status = "fulfilled"

\* Promise.all rejects: some promise is rejected
someRejected(promises) ==
  \E i \in 1..Len(promises) : promises[i].status = "rejected"

RECURSIVE mergeResults(_, _)
mergeResults(ctx, results) ==
  IF results = <<>> THEN ctx
  ELSE mergeResults(recordOutput(ctx, Head(results)), Tail(results))

\* the settled results sorted by the time they arrived
RECURSIVE byCompletion(_)
byCompletion(results) ==
  IF results = <<>> THEN <<>>
  ELSE LET i == CHOOSE i \in 1..Len(results) :
                  \A j \in 1..Len(results) :
                     \/ results[i].endedAt < results[j].endedAt
                     \/ (results[i].endedAt = results[j].endedAt /\ i <= j)
           rest == [k \in 1..(Len(results) - 1) |->
                      IF k < i THEN results[k] ELSE results[k + 1]]
       IN <<results[i]>> \o byCompletion(rest)

\* faulty variant: results are merged in the order the backend answered
mergeBranchResultsByCompletion(ctx, promises) ==
  mergeResults(ctx, byCompletion(
     SelectSeq([i \in 1..Len(promises) |-> promises[i].value],
               LAMBDA r : r # NoResult)))

\* for (const result of branchResults): outputs[result.agentId] = result.output
\* and timeline.push(result), in the order of the branches array
mergeBranchResults(ctx, promises) ==
  mergeResults(ctx, [i \in 1..Len(promises) |-> promises[i].value])

\* runWorkflow enters runParallelWorkflow, which runs the map and awaits
\* Promise.all; a lookup that raised has already rejected the join
StartParallel ==
  LET r == mapBranches(config.branches, context, calls, now)
  IN /\ branchPromises' = r.promises
     /\ calls' = r.calls
     /\ IF someRejected(r.promises)
        THEN pc' = "failed" /\ err' = "config"
        ELSE pc' = "branches" /\ err' = "none"
     /\ UNCHANGED <<context, stepIdx, now>>

\* faulty variant: the callback itself writes its result into the context
BranchCompleteMerging(i, out) ==
  /\ i \in 1..Len(branchPromises)
  /\ branchPromises[i].status = "pending"
  /\ LET p     == branchPromises[i]
         agent == getAgent(config.branches[i])
         t     == now + 1
         value == TimelineEntry(agent, out, calls[p.call].startedAt, t)
     IN /\ now' = t
        /\ branchPromises' = [branchPromises EXCEPT ![i] = Fulfilled(p.call, value)]
        /\ calls' = [calls EXCEPT ![p.call] = Answered(@, out, t)]
        /\ context' = recordOutput(context, value)
  /\ UNCHANGED <<config, pc, err, stepIdx>>

\* the awaited llm.generate of branch i resolves with `out`: the callback
\* returns its result object, the context is not touched. The callback also
\* runs to its end when the join has already been rejected by a sibling.
BranchComplete(i, out) ==
  /\ i \in 1..Len(branchPromises)
  /\ branchPromises[i].status = "pending"
  /\ LET p     == branchPromises[i]
         agent == getAgent(config.branches[i])
         t     == now + 1
         value == TimelineEntry(agent, out, calls[p.call].startedAt, t)
     IN /\ now' = t
        /\ branchPromises' = [branchPromises EXCEPT ![i] = Fulfilled(p.call, value)]
        /\ calls' = [calls EXCEPT ![p.call] = Answered(@, out, t)]
  /\ UNCHANGED <<config, context, pc, err, stepIdx>>

\* the awaited llm.generate of branch i rejects: its promise rejects, and
\* Promise.all rejects with it unless it has been rejected before
BranchFail(i) ==
  /\ i \in 1..Len(branchPromises)
  /\ branchPromises[i].status = "pending"
  /\ now' = now + 1
  /\ branchPromises' = [branchPromises EXCEPT ![i] = Rejected(@.call)]
  /\ calls' = [calls EXCEPT ![branchPromises[i].call] = Failed(@, now + 1)]
  /\ pc' = IF pc = "branches" THEN "failed" ELSE pc
  /\ err' = IF pc = "branches" THEN "backend" ELSE err
  /\ UNCHANGED <<config, context, stepIdx>>

\* Promise.all has resolved: the results are merged, then the final agent is
\* looked up, its prompt built from the merged context and its call issued
JoinThen ==
  /\ pc = "branches"
  /\ allFulfilled(branchPromises)
  /\ LET ctx1 == mergeBranchResults(context, branchPromises)
     IN /\ context' = ctx1
        /\ IF getAgentThrows(config.then)
           THEN /\ pc' = "failed"
                /\ err' = "config"
                /\ calls' = calls
           ELSE LET finalAgent == getAgent(config.then)
                IN /\ pc' = "then"
                   /\ err' = err
                   /\ calls' = Append(calls,
                        BackendCall(finalAgent, buildPrompt(finalAgent, ctx1), "then", 0, now))
  /\ UNCHANGED <<config, stepIdx, branchPromises, now>>

\* the awaited llm.generate of the final agent resolves with `out`
ThenComplete(out) ==
  /\ pc = "then"
  /\ LET c          == calls[Len(calls)]
         finalAgent == getAgent(config.then)
         t          == now + 1
     IN /\ now' = t
        /\ context' = recordOutput(context, TimelineEntry(finalAgent, out, c.startedAt, t))
        /\ calls' = [calls EXCEPT ![Len(calls)] = Answered(@, out, t)]
  /\ pc' = "done"
  /\ UNCHANGED <<config, err, stepIdx, branchPromises>>

\* the awaited llm.generate of the final agent rejects
ThenFail ==
  /\ pc = "then"
  /\ now' = now + 1
  /\ calls' = [calls EXCEPT ![Len(calls)] = Failed(@, now + 1)]
  /\ pc' = "failed"
  /\ err' = "backend"
  /\ UNCHANGED <<config, context, stepIdx, branchPromises>>

(* ============================ tool calling ============================ *)
(* MCPToolRegistry and ToolAwareLLMProvider.generateWithTools. One         *)
(* behaviour of SpecTools is one generateWithTools call.                   *)

\* largest maxToolCalls a caller passes
MaxGiven == 3
\* maxToolCalls when the caller passes none
DefaultMaxToolCalls == 5

\* a JS value that is undefined, as a template literal renders it
Undefined == "undefined"

(* --------------------------- MCPToolRegistry -------------------------- *)
\* the registry as initializeMCPTools leaves it
InitialRegistry ==
  [n \in {"filesystem", "web_search", "code_execution"} |-> [name |-> n, gen |-> 1]]

\* what a provider's execute does with one call
ProviderOutcomes == {"ok", "fail", "throw"}

ToolResult(success, hasResult, result, hasError, error, executionTime) ==
  [success |-> success, hasResult |-> hasResult, result |-> result,
   hasError |-> hasError, error |-> error, executionTime |-> executionTime]

\* the ToolResult a provider returns, for the two outcomes that return
ProviderResult(outcome) ==
  IF outcome = "ok"
  THEN ToolResult(TRUE, TRUE, <<"payload">>, FALSE, <<>>, 1)
  ELSE ToolResult(FALSE, FALSE, <<>>, TRUE, <<"provider error">>, 1)

\* the message of the Error a provider throws
ThrownMessage == <<"boom">>

\* faulty variant: an unknown tool name raises instead of returning a result
executeToolLookupThrowing(reg, toolName) ==
  IF toolName \notin DOMAIN reg
  THEN [kind |-> "raised", error |-> <<"Tool", toolName, "not found">>]
  ELSE [kind |-> "run", provider |-> reg[toolName]]

\* executeTool up to its await: the lookup. An unknown name returns the
\* not-found result at once; otherwise the provider's execute is started.
executeToolLookup(reg, toolName) ==
  IF toolName \notin DOMAIN reg
  THEN [kind |-> "returned",
        result |-> ToolResult(FALSE, FALSE, <<>>, TRUE, <<"Tool", toolName, "not found">>, 0)]
  ELSE [kind |-> "run", provider |-> reg[toolName]]

\* faulty variant: no try/catch around tool.execute
executeToolSettleRethrowing(outcome) ==
  IF outcome = "throw"
  THEN [kind |-> "raised", error |-> ThrownMessage]
  ELSE [kind |-> "returned", result |-> ProviderResult(outcome)]

\* faulty variant: the catch block returns a failure without an error text
executeToolSettleDroppingError(outcome) ==
  IF outcome = "throw"
  THEN [kind |-> "returned", result |-> ToolResult(FALSE, FALSE, <<>>, FALSE, <<>>, 0)]
  ELSE [kind |-> "returned", result |-> ProviderResult(outcome)]

\* executeTool after its await: the provider's result is returned as it is,
\* an exception of the provider is caught and turned into a failure result
executeToolSettle(outcome) ==
  IF outcome = "throw"
  THEN [kind |-> "returned",
        result |-> ToolResult(FALSE, FALSE, <<>>, TRUE, ThrownMessage, 0)]
  ELSE [kind |-> "returned", result |-> ProviderResult(outcome)]

\* the MCPTool schema a provider's getSchema returns
Schema(name) ==
  [name |-> name, description |-> <<"about", name>>,
   parameters |-> <<"{", "type:", "object", "}">>]

(* --------------------- MCPToolRegistry: the Map ----------------------- *)
MaxRegisters == 3
MaxNames == 3

\* schema names providers are registered under, and names callers ask for
ProviderNames == {"filesystem", "web_search"}
QueryNames == ProviderNames \cup {"nosuch"}

\* new Map<string, MCPToolProvider>()
EmptyRegistry == [n \in {} |-> [name |-> n, gen |-> 0]]

NoRegCall == [op |-> "none"]

\* faulty variant: a name that is already registered keeps its provider
registerKeepingFirst(reg, tool) ==
  [n \in DOMAIN reg \cup {tool.name} |-> IF n \in DOMAIN reg THEN reg[n] ELSE tool]

\* this.tools.set(schema.name, tool)
register(reg, tool) ==
  [n \in DOMAIN reg \cup {tool.name} |-> IF n = tool.name THEN tool ELSE reg[n]]

\* Map keeps a key at the position of its first insertion
keysAfterSet(order, name) ==
  IF \E i \in 1..Len(order) : order[i] = name THEN order ELSE Append(order, name)

\* this.tools.get(name): the provider, or undefined
Has(reg, name) == name \in DOMAIN reg

\* Array.from(this.tools.values()).map(t => t.getSchema())
listTools(reg, order) == [i \in 1..Len(order) |-> Schema(reg[order[i]].name)]

\* faulty variant: an unregistered name leaves an undefined entry
RECURSIVE getToolsForAgentUnfiltered(_, _)
getToolsForAgentUnfiltered(reg, toolNames) ==
  IF toolNames = <<>> THEN <<>>
  ELSE <<IF Has(reg, Head(toolNames)) THEN reg[Head(toolNames)]
         ELSE [name |-> Undefined, gen |-> 0]>>
       \o getToolsForAgentUnfiltered(reg, Tail(toolNames))

\* toolNames.map(name => this.tools.get(name)).filter(tool => tool !== undefined)
RECURSIVE getToolsForAgent(_, _)
getToolsForAgent(reg, toolNames) ==
  IF toolNames = <<>> THEN <<>>
  ELSE (IF Has(reg, Head(toolNames)) THEN <<reg[Head(toolNames)]>> ELSE <<>>)
       \o getToolsForAgent(reg, Tail(toolNames))

\* registry.register(tool) with a new provider object for schema name `name`
Register(name) ==
  /\ Len(regHistory) < MaxRegisters
  /\ LET tool == [name |-> name, gen |-> Len(regHistory) + 1]
     IN /\ toolRegistry' = register(toolRegistry, tool)
        /\ regOrder' = keysAfterSet(regOrder, name)
        /\ regHistory' = Append(regHistory, tool)
  /\ UNCHANGED regCall

\* registry.listTools()
ListTools ==
  /\ regCall' = [op |-> "listTools", reg |-> toolRegistry, history |-> regHistory,
                 ret |-> listTools(toolRegistry, regOrder)]
  /\ UNCHANGED <<toolRegistry, regOrder, regHistory>>

\* registry.getToolsForAgent(toolNames)
GetToolsForAgent(toolNames) ==
  /\ regCall' = [op |-> "getToolsForAgent", reg |-> toolRegistry, history |-> regHistory,
                 names |-> toolNames, raised |-> FALSE,
                 ret |-> getToolsForAgent(toolRegistry, toolNames)]
  /\ UNCHANGED <<toolRegistry, regOrder, regHistory>>

\* await registry.executeTool(toolName, parameters), the provider's execute
\* ending as `outcome`
ExecuteTool(toolName, outcome) ==
  /\ LET lk == executeToolLookup(toolRegistry, toolName)
         st == IF lk.kind = "run" THEN executeToolSettle(outcome) ELSE lk
     IN regCall' = [op |-> "executeTool", reg |-> toolRegistry, history |-> regHistory,
                    toolName |-> toolName,
                    ran |-> IF lk.kind = "run" THEN lk.provider ELSE [name |-> Undefined, gen |-> 0],
                    outcome |-> IF lk.kind = "run" THEN outcome ELSE "none",
                    raised |-> (st.kind = "raised"),
                    ret |-> IF st.kind = "raised"
                            THEN ToolResult(FALSE, FALSE, <<>>, FALSE, <<>>, 0)
                            ELSE st.result]
  /\ UNCHANGED <<toolRegistry, regOrder, regHistory>>

(* -------------------------- CodeExecutionTool ------------------------- *)
MaxExecs == 3
DefaultTimeout == 5000
DefaultMemoryLimit == 16

\* concurrent callers of one tool instance
Callers == {1, 2}

Languages == {"javascript", "python", "ruby"}

\* params.code: every script sets a global binding and logs it, then
\* "ret" reads the binding back, logs it and returns it, "throw" throws,
\* "spin" loops for ever, "hog" allocates without end, "throwTimeout" throws
\* new Error("connection timeout")
Codes == {"ret", "throw", "spin", "hog", "throwTimeout"}

Unset == "undefined"
\* the value caller c's script binds
Marker(c) == IF c = 1 THEN "m1" ELSE "m2"

\* error messages of isolated-vm and of the scripts
TimeoutError  == <<"Script", "execution", "timed", "out.">>
MemoryError   == <<"Isolate", "was", "disposed", "during", "execution", "due", "to",
                   "memory", "limit">>
DisposedError == <<"Isolate", "is", "already", "disposed">>
IsolateError  == <<"Isolate", "could", "not", "be", "created">>
ContextError  == <<"Context", "could", "not", "be", "created">>
ScriptError   == <<"boom">>
ScriptTimeoutError == <<"connection", "timeout">>

\* the message of the Error a throwing script throws; script.run rejects
\* with that error
ThrownBy(code) == IF code = "throwTimeout" THEN ScriptTimeoutError ELSE ScriptError

PythonMessage ==
  <<"Python execution not yet implemented. Install python-shell package and configure Python runtime.">>
TimeoutMessage == <<"Code", "execution", "timed", "out", "after", ToString(DefaultTimeout), "ms">>
MemoryMessage  == <<"Code", "exceeded", "memory", "limit", "of", ToString(DefaultMemoryLimit), "MB">>

\* String.prototype.includes for a word
includes(message, word) == \E i \in 1..Len(message) : message[i] = word

\* the catch block of executeJavaScript rewrites the message by category
classify(errorMessage) ==
  IF includes(errorMessage, "timeout") THEN TimeoutMessage
  ELSE IF includes(errorMessage, "memory") THEN MemoryMessage
  ELSE errorMessage

\* faulty variant: a live isolate is reused for the next call
IsolateShared(isos, caller) ==
  IF isos # <<>> /\ isos[Len(isos)].live THEN isos
  ELSE Append(isos, [owner |-> caller, live |-> TRUE, x |-> Unset])

\* new ivm.Isolate({ memoryLimit }): a fresh isolate with its own globals
Isolate(isos, caller) ==
  Append(isos, [owner |-> caller, live |-> TRUE, x |-> Unset])

\* faulty variant: dispose is not called
disposeLeaking(iso) == iso

\* isolate.dispose() on a live isolate
dispose(iso) == [iso EXCEPT !.live = FALSE]

\* isolate.dispose() raises on an isolate that is already disposed
disposeThrows(iso) == ~iso.live

\* faulty variant: every language but python is run as javascript
executeLanguageDefaultJs(language) ==
  IF language = "python" THEN "python" ELSE "javascript"

\* if (params.language === "javascript") ... else ...
executeLanguage(language) ==
  IF language = "javascript" THEN "javascript" ELSE "python"

executePython == ToolResult(FALSE, FALSE, <<>>, TRUE, PythonMessage, 0)

\* faulty variant: execute has no catch
executeCatchRethrowing(error, elapsed) ==
  [kind |-> "raised", result |-> ToolResult(FALSE, FALSE, <<>>, TRUE, error, elapsed)]

\* the catch block of execute
executeCatch(error, elapsed) ==
  [kind |-> "returned", result |-> ToolResult(FALSE, FALSE, <<>>, TRUE, error, elapsed)]

NoExecResult == ToolResult(FALSE, FALSE, <<>>, FALSE, <<>>, 0)

IdleExec ==
  [pc |-> "idle", language |-> "", code |-> "", isolate |-> 0, startTime |-> 0,
   logs |-> <<>>, pending |-> NoExecResult, result |-> NoExecResult]

\* execute(params) up to its first await: python and other languages return
\* the not-implemented result; javascript creates its isolate, and if that
\* raises the catch block of execute returns the failure
Execute(c, language, code, created) ==
  /\ execs[c].pc \in {"idle", "returned", "raised"}
  /\ execCount < MaxExecs
  /\ execCount' = execCount + 1
  /\ LET call == [IdleExec EXCEPT !.language = language, !.code = code, !.startTime = now]
     IN IF executeLanguage(language) = "python"
        THEN /\ created
             /\ execs' = [execs EXCEPT ![c] = [call EXCEPT !.pc = "returned",
                                                           !.result = executePython]]
             /\ isolates' = isolates
        ELSE IF created
        THEN /\ isolates' = Isolate(isolates, c)
             /\ execs' = [execs EXCEPT ![c] = [call EXCEPT !.pc = "setup",
                                                           !.isolate = Len(isolates')]]
        ELSE /\ isolates' = isolates
             /\ execs' = [execs EXCEPT ![c] =
                            [call EXCEPT !.pc = executeCatch(IsolateError, 0).kind,
                                         !.result = executeCatch(IsolateError, 0).result]]
  /\ UNCHANGED now

\* createContext, jail.set('$log') and the console bootstrap have settled:
\* the user script starts, or the catch block takes the error
Setup(c, ok) ==
  /\ execs[c].pc = "setup"
  /\ execs' = [execs EXCEPT ![c] =
       IF ok THEN [@ EXCEPT !.pc = "script"]
       ELSE [@ EXCEPT !.pc = "finally",
                      !.pending = ToolResult(FALSE, FALSE, <<>>, TRUE,
                                             classify(ContextError),
                                             now - execs[c].startTime)]]
  /\ UNCHANGED <<isolates, execCount, now>>

\* the script binds its global and logs it
ScriptBind(c) ==
  /\ execs[c].pc = "script"
  /\ isolates' = [isolates EXCEPT ![execs[c].isolate] = [@ EXCEPT !.x = Marker(c)]]
  /\ execs' = [execs EXCEPT ![c] = [@ EXCEPT !.pc = "running",
                                             !.logs = Append(@, Marker(c))]]
  /\ UNCHANGED <<execCount, now>>

\* await script.run(context, { timeout }) settles: the value of the script,
\* or the error, which the catch block turns into a failure result
ScriptSettle(c) ==
  /\ execs[c].pc = "running"
  /\ now' = now + 1
  /\ LET iso     == isolates[execs[c].isolate]
         seen    == iso.x
         elapsed == now' - execs[c].startTime
         failure(message) == ToolResult(FALSE, FALSE, <<>>, TRUE, classify(message), elapsed)
     IN CASE execs[c].code = "ret" ->
               /\ execs' = [execs EXCEPT ![c] =
                    [@ EXCEPT !.pc = "finally",
                              !.logs = Append(@, seen),
                              !.pending = ToolResult(TRUE, TRUE,
                                 [returnValue |-> seen, output |-> Append(execs[c].logs, seen),
                                  language |-> "javascript", executionTime |-> elapsed],
                                 FALSE, <<>>, elapsed)]]
               /\ isolates' = isolates
          [] execs[c].code \in {"throw", "throwTimeout"} ->
               /\ execs' = [execs EXCEPT ![c] =
                    [@ EXCEPT !.pc = "finally", !.pending = failure(ThrownBy(execs[c].code))]]
               /\ isolates' = isolates
          [] execs[c].code = "spin" ->
               /\ execs' = [execs EXCEPT ![c] =
                    [@ EXCEPT !.pc = "finally", !.pending = failure(TimeoutError)]]
               /\ isolates' = isolates
          [] OTHER ->
               /\ execs' = [execs EXCEPT ![c] =
                    [@ EXCEPT !.pc = "finally", !.pending = failure(MemoryError)]]
               /\ isolates' = [isolates EXCEPT ![execs[c].isolate] = [@ EXCEPT !.live = FALSE]]
  /\ UNCHANGED execCount

\* finally { isolate.dispose() }, then the result is returned; if dispose
\* raises, its error replaces the result and the catch block of execute
\* returns it
Finally(c) ==
  /\ execs[c].pc = "finally"
  /\ LET iso == isolates[execs[c].isolate]
         out == executeCatch(DisposedError, now - execs[c].startTime)
     IN IF disposeThrows(iso)
        THEN /\ isolates' = isolates
             /\ execs' = [execs EXCEPT ![c] =
                  [@ EXCEPT !.pc = out.kind, !.result = out.result, !.pending = NoExecResult]]
        ELSE /\ isolates' = [isolates EXCEPT ![execs[c].isolate] = dispose(iso)]
             /\ execs' = [execs EXCEPT ![c] =
                  [@ EXCEPT !.pc = "returned", !.result = execs[c].pending,
                            !.pending = NoExecResult]]
  /\ UNCHANGED <<execCount, now>>

(* ------------------------- backend responses -------------------------- *)
OpenTag  == "<tool_call>"
CloseTag == "</tool_call>"

\* texts that may stand between the tags
JsonTexts == {"J:fs", "J:nosuch", "J:notool", "J:bad"}

\* JSON.parse of one text: "J:bad" is not JSON; "J:nosuch" has no
\* parameters field; "J:notool" is an object without a tool field
JSONparse(text) ==
  CASE text = "J:fs"     -> [ok |-> TRUE, tool |-> "filesystem", hasParameters |-> TRUE,
                             parameters |-> <<"{", "operation:", "read", "}">>]
    [] text = "J:nosuch" -> [ok |-> TRUE, tool |-> "nosuch", hasParameters |-> FALSE,
                             parameters |-> <<>>]
    [] text = "J:notool" -> [ok |-> TRUE, tool |-> Undefined, hasParameters |-> TRUE,
                             parameters |-> <<"{", "x:", "1", "}">>]
    [] OTHER             -> [ok |-> FALSE, tool |-> Undefined, hasParameters |-> FALSE,
                             parameters |-> <<>>]

\* the responses the backend answers with
Responses ==
  { <<"text">>,
    <<OpenTag, "\n", "J:fs", "\n", CloseTag, "text", OpenTag, "J:nosuch", CloseTag>>,
    <<"text", OpenTag, "J:nosuch", CloseTag, "text">>,
    <<OpenTag, "J:notool", CloseTag>>,
    <<OpenTag, "J:bad", CloseTag, OpenTag, "J:fs", CloseTag>>,
    <<OpenTag, "J:fs">> }

NoCall == [kind |-> "null", toolName |-> Undefined, parameters |-> <<>>]

\* the parsed content of a block: JSON.parse(content.trim()), then
\* {toolName: parsed.tool, parameters: parsed.parameters || {}}
ParseContent(content) ==
  LET t == Trim(content)
  IN IF Len(t) = 1 /\ JSONparse(t[1]).ok
     THEN [kind |-> "call", toolName |-> JSONparse(t[1]).tool,
           parameters |-> IF JSONparse(t[1]).hasParameters
                          THEN JSONparse(t[1]).parameters ELSE <<"{", "}">>]
     ELSE NoCall

Positions(response, tag) == {i \in 1..Len(response) : response[i] = tag}
Min(S) == CHOOSE x \in S : \A y \in S : x <= y
Max(S) == CHOOSE x \in S : \A y \in S : x >= y

\* faulty variant: the last block of the response is the one honoured
parseToolCallLast(response) ==
  IF Positions(response, OpenTag) = {} THEN NoCall
  ELSE LET i == Max(Positions(response, OpenTag))
           closes == {j \in Positions(response, CloseTag) : j > i}
       IN IF closes = {} THEN NoCall
          ELSE ParseContent(SubSeq(response, i + 1, Min(closes) - 1))

\* faulty variant: an open tag without a close tag counts as a block
parseToolCallUnclosed(response) ==
  IF Positions(response, OpenTag) = {} THEN NoCall
  ELSE LET i == Min(Positions(response, OpenTag))
           closes == {j \in Positions(response, CloseTag) : j > i}
       IN ParseContent(SubSeq(response, i + 1,
                              IF closes = {} THEN Len(response) ELSE Min(closes) - 1))

\* response.match(/<tool_call>(.*?)<\/tool_call>/s): the leftmost open tag
\* that a close tag follows, up to the first close tag after it; null when
\* there is none or when its content does not parse
parseToolCall(response) ==
  IF Positions(response, OpenTag) = {} THEN NoCall
  ELSE LET i == Min(Positions(response, OpenTag))
           closes == {j \in Positions(response, CloseTag) : j > i}
       IN IF closes = {} THEN NoCall
          ELSE ParseContent(SubSeq(response, i + 1, Min(closes) - 1))

(* ------------------------ ToolAwareLLMProvider ------------------------ *)
\* the ToolAwareLLMParams callers pass: with or without tools, with
\* maxToolCalls absent or a number from 0 to MaxGiven
ParamsSet ==
  {[system |-> <<"sys">>, user |-> <<"ask">>, tools |-> ts,
    hasMaxToolCalls |-> h, maxToolCalls |-> m] :
      ts \in {<<>>, <<Schema("filesystem")>>},
      h \in BOOLEAN, m \in 0..MaxGiven} \ 
  {p \in [system : {<<"sys">>}, user : {<<"ask">>},
          tools : {<<>>, <<Schema("filesystem")>>},
          hasMaxToolCalls : {FALSE}, maxToolCalls : 1..MaxGiven] : TRUE}

\* params before any call is made
IdleParams ==
  [system |-> <<"sys">>, user |-> <<"ask">>, tools |-> <<>>,
   hasMaxToolCalls |-> FALSE, maxToolCalls |-> 0]

\* const maxIterations = params.maxToolCalls || 5
maxIterationsOf(p) ==
  IF p.hasMaxToolCalls /\ p.maxToolCalls # 0 THEN p.maxToolCalls ELSE DefaultMaxToolCalls

RECURSIVE ToolLines(_)
ToolLines(tools) ==
  IF tools = <<>> THEN <<>>
  ELSE <<"Tool:", Head(tools).name, "\n", "Description:">> \o Head(tools).description
       \o <<"\n", "Parameters:">> \o Head(tools).parameters \o <<"\n", "\n">>
       \o ToolLines(Tail(tools))

buildToolPrompt(baseSystem, tools) ==
  IF Len(tools) = 0 THEN baseSystem
  ELSE baseSystem
       \o <<"\n", "\n", "You have access to the following tools:", "\n", "\n">>
       \o ToolLines(tools)
       \o <<"\n", "To use a tool, respond with ONLY this format (no other text):", "\n",
            OpenTag, "\n", "{ tool, parameters }", "\n", CloseTag, "\n", "\n",
            "When you have the information you need from tools, respond normally without the tool_call tags.",
            "\n">>

\* JSON.stringify of a ToolResult: absent fields are left out
StringifyResult(r) ==
  <<"{", "success:", IF r.success THEN "true" ELSE "false">>
  \o (IF r.hasResult THEN <<"result:">> \o r.result ELSE <<>>)
  \o (IF r.hasError THEN <<"error:">> \o r.error ELSE <<>>)
  \o <<"executionTime:", ToString(r.executionTime), "}">>

buildToolResultPrompt(previousPrompt, toolCall, result) ==
  previousPrompt
  \o <<"\n", "\n", "<tool_result>", "\n", "Tool:", toolCall.toolName, "\n", "Parameters:">>
  \o toolCall.parameters
  \o <<"\n", "Result:">> \o StringifyResult(result)
  \o <<"\n", "</tool_result>", "\n", "\n",
       "Based on this tool result, provide your final response (without using more tools unless necessary).">>

\* the locals of generateWithTools before the call
IdleLoop ==
  [pc |-> "idle", iteration |-> 0, maxIterations |-> 0, currentPrompt |-> <<>>,
   toolCalls |-> <<>>, pending |-> NoCall, output |-> <<>>, err |-> "none"]

\* faulty variant: do-while, the bound is tested after the round
LoopHeadTestingLate(lp, log) ==
  IF lp.iteration <= lp.maxIterations
  THEN [loop   |-> [lp EXCEPT !.iteration = @ + 1, !.pc = "awaitLLM"],
        llmLog |-> Append(log, [system |-> buildToolPrompt(params.system, params.tools),
                                user |-> lp.currentPrompt,
                                status |-> "pending", response |-> <<>>])]
  ELSE [loop |-> [lp EXCEPT !.pc = "failed", !.err = "max"], llmLog |-> log]

\* while (iteration < maxIterations): the next round's backend call is
\* issued, or the loop is left and the max-iterations Error is thrown
LoopHead(lp, log) ==
  IF lp.iteration < lp.maxIterations
  THEN [loop   |-> [lp EXCEPT !.iteration = @ + 1, !.pc = "awaitLLM"],
        llmLog |-> Append(log, [system |-> buildToolPrompt(params.system, params.tools),
                                user |-> lp.currentPrompt,
                                status |-> "pending", response |-> <<>>])]
  ELSE [loop |-> [lp EXCEPT !.pc = "failed", !.err = "max"], llmLog |-> log]

\* faulty variant: a failed tool result ends the run with an error
AfterToolFailingFast(lp, toolCall, result, t) ==
  IF ~result.success THEN [lp EXCEPT !.pc = "failed", !.err = "tool", !.pending = NoCall]
  ELSE [lp EXCEPT
          !.toolCalls = Append(@, [toolName |-> toolCall.toolName,
                                   parameters |-> toolCall.parameters, timestamp |-> t]),
          !.currentPrompt = buildToolResultPrompt(@, toolCall, result),
          !.pending = NoCall]

\* faulty variant: only successful tool calls are kept in the audit list
AfterToolKeepingSuccesses(lp, toolCall, result, t) ==
  [lp EXCEPT
     !.toolCalls = IF result.success
                   THEN Append(@, [toolName |-> toolCall.toolName,
                                   parameters |-> toolCall.parameters, timestamp |-> t])
                   ELSE @,
     !.currentPrompt = buildToolResultPrompt(@, toolCall, result),
     !.pending = NoCall]

\* faulty variant: the result block is put after the original prompt, the
\* blocks of the earlier rounds are lost
AfterToolRestartingPrompt(lp, toolCall, result, t) ==
  [lp EXCEPT
     !.toolCalls = Append(@, [toolName |-> toolCall.toolName,
                              parameters |-> toolCall.parameters, timestamp |-> t]),
     !.currentPrompt = buildToolResultPrompt(params.user, toolCall, result),
     !.pending = NoCall]

\* executeTool has returned `result`: the call is pushed to toolCalls and the
\* rendered result appended to the prompt
AfterTool(lp, toolCall, result, t) ==
  [lp EXCEPT
     !.toolCalls = Append(@, [toolName |-> toolCall.toolName,
                              parameters |-> toolCall.parameters, timestamp |-> t]),
     !.currentPrompt = buildToolResultPrompt(@, toolCall, result),
     !.pending = NoCall]

\* a caller calls generateWithTools(params): locals set, first round started
generateWithTools ==
  /\ loop.pc = "idle"
  /\ LET lp0 == [IdleLoop EXCEPT !.maxIterations = maxIterationsOf(params),
                                 !.currentPrompt = params.user]
         r   == LoopHead(lp0, llmLog)
     IN /\ loop' = r.loop
        /\ llmLog' = r.llmLog
  /\ UNCHANGED <<params, toolLog, toolRegistry, now, engineVars>>

\* the awaited baseLLM.generate resolves with `response`: it is parsed; a
\* response without a call is returned; otherwise executeTool is called, and
\* either returns at once (unknown tool) or starts the provider
LLMRespond(response) ==
  /\ loop.pc = "awaitLLM"
  /\ LET t    == now + 1
         log1 == [llmLog EXCEPT ![Len(llmLog)] =
                    [@ EXCEPT !.status = "ok", !.response = response]]
         call == parseToolCall(response)
         lk   == executeToolLookup(toolRegistry, call.toolName)
         entry(status, ran, result) ==
           [toolName |-> call.toolName, parameters |-> call.parameters,
            providerRan |-> ran, outcome |-> "none", status |-> status,
            result |-> result, round |-> loop.iteration]
         none == ToolResult(FALSE, FALSE, <<>>, FALSE, <<>>, 0)
     IN /\ now' = t
        /\ IF call.kind = "null"
           THEN /\ loop' = [loop EXCEPT !.pc = "returned", !.output = response]
                /\ llmLog' = log1
                /\ toolLog' = toolLog
           ELSE IF lk.kind = "run"
           THEN /\ loop' = [loop EXCEPT !.pc = "awaitTool", !.pending = call]
                /\ llmLog' = log1
                /\ toolLog' = Append(toolLog, entry("running", TRUE, none))
           ELSE IF lk.kind = "raised"
           THEN /\ loop' = [loop EXCEPT !.pc = "failed", !.err = "tool"]
                /\ llmLog' = log1
                /\ toolLog' = Append(toolLog, entry("raised", FALSE, none))
           ELSE LET lp1 == AfterTool(loop, call, lk.result, t)
                    r   == IF lp1.pc = "failed" THEN [loop |-> lp1, llmLog |-> log1]
                           ELSE LoopHead(lp1, log1)
                IN /\ loop' = r.loop
                   /\ llmLog' = r.llmLog
                   /\ toolLog' = Append(toolLog, entry("returned", FALSE, lk.result))
  /\ UNCHANGED <<params, toolRegistry, engineVars>>

\* the awaited baseLLM.generate rejects: nothing catches it
LLMFail ==
  /\ loop.pc = "awaitLLM"
  /\ now' = now + 1
  /\ llmLog' = [llmLog EXCEPT ![Len(llmLog)] = [@ EXCEPT !.status = "error"]]
  /\ loop' = [loop EXCEPT !.pc = "failed", !.err = "backend"]
  /\ UNCHANGED <<params, toolLog, toolRegistry, engineVars>>

\* the provider's execute settles: executeTool returns, the loop goes on
ProviderSettle(outcome) ==
  /\ loop.pc = "awaitTool"
  /\ LET t  == now + 1
         st == executeToolSettle(outcome)
     IN /\ now' = t
        /\ IF st.kind = "raised"
           THEN /\ loop' = [loop EXCEPT !.pc = "failed", !.err = "tool", !.pending = NoCall]
                /\ llmLog' = llmLog
                /\ toolLog' = [toolLog EXCEPT ![Len(toolLog)] =
                                 [@ EXCEPT !.status = "raised", !.outcome = outcome]]
           ELSE LET lp1 == AfterTool(loop, loop.pending, st.result, t)
                    r   == IF lp1.pc = "failed" THEN [loop |-> lp1, llmLog |-> llmLog]
                           ELSE LoopHead(lp1, llmLog)
                IN /\ loop' = r.loop
                   /\ llmLog' = r.llmLog
                   /\ toolLog' = [toolLog EXCEPT ![Len(toolLog)] =
                                    [@ EXCEPT !.status = "returned", !.outcome = outcome,
                                              !.result = st.result]]
  /\ UNCHANGED <<params, toolRegistry, engineVars>>

(* --------------------------- FilesystemTool --------------------------- *)
\* Path strings are sequences of tokens: the separator "/", the names "." and
\* "..", pieces of names, and extensions (a dot followed by letters).
MaxFsCalls == 2

Sep == "/"

\* process.cwd()
Cwd == <<Sep, "work">>

\* the extensions allowed when the configuration gives none
DefaultAllowedExtensions == {".txt", ".md", ".json", ".yml", ".yaml", ".js", ".ts", ".csv"}

\* the tokens that are an extension
ExtensionTokens == DefaultAllowedExtensions \cup {".sh"}

\* new FilesystemTool() and new FilesystemTool({allowedExtensions: [".txt"]})
NoFsConfig ==
  [hasWorkingDirectory |-> FALSE, workingDirectory |-> <<>>,
   hasAllowedExtensions |-> FALSE, allowedExtensions |-> {}]

FsConfigs ==
  {NoFsConfig,
   [hasWorkingDirectory |-> FALSE, workingDirectory |-> <<>>,
    hasAllowedExtensions |-> TRUE, allowedExtensions |-> {".txt"}]}

\* the constructor: config.workingDirectory || process.cwd(),
\* config.allowedExtensions || [the eight defaults]
FilesystemTool(cfg) ==
  [workingDirectory |->
     IF cfg.hasWorkingDirectory /\ cfg.workingDirectory # <<>>
     THEN cfg.workingDirectory ELSE Cwd,
   allowedExtensions |->
     IF cfg.hasAllowedExtensions THEN cfg.allowedExtensions ELSE DefaultAllowedExtensions]

\* the segments of a path string, the empty ones included
RECURSIVE Segments(_)
Segments(p) ==
  IF p = <<>> THEN << <<>> >>
  ELSE LET rest == Segments(Tail(p))
       IN IF Head(p) = Sep THEN << <<>> >> \o rest
          ELSE << <<Head(p)>> \o Head(rest) >> \o Tail(rest)

\* normalisation: empty segments and "." are dropped, ".." drops the segment
\* before it (at the root it is dropped itself)
RECURSIVE Normalize(_, _)
Normalize(segs, acc) ==
  IF segs = <<>> THEN acc
  ELSE LET seg == Head(segs)
       IN IF seg = <<>> \/ seg = <<".">> THEN Normalize(Tail(segs), acc)
          ELSE IF seg = <<"..">>
          THEN Normalize(Tail(segs),
                         IF acc = <<>> THEN acc ELSE SubSeq(acc, 1, Len(acc) - 1))
          ELSE Normalize(Tail(segs), Append(acc, seg))

RECURSIVE Join(_)
Join(segs) ==
  IF segs = <<>> THEN <<>> ELSE <<Sep>> \o Head(segs) \o Join(Tail(segs))

IsAbsolute(p) == p # <<>> /\ Head(p) = Sep

\* path.resolve(from, to), `from` being absolute: `to` itself when it is
\* absolute, else `to` under `from`, normalised, with no trailing separator
resolve(from, to) ==
  LET full == IF IsAbsolute(to) THEN to ELSE from \o <<Sep>> \o to
      segs == Normalize(Segments(full), <<>>)
  IN IF segs = <<>> THEN <<Sep>> ELSE Join(segs)

\* String.prototype.startsWith: a comparison of characters, not of segments
startsWith(str, prefix) ==
  /\ Len(prefix) <= Len(str)
  /\ SubSeq(str, 1, Len(prefix)) = prefix

\* path.extname: the extension of the last segment, "" when it has none or
\* when the segment is only the dotted name (".env")
extname(p) ==
  LET segs == Normalize(Segments(p), <<>>)
  IN IF segs = <<>> THEN ""
     ELSE LET last == segs[Len(segs)]
          IN IF Len(last) >= 2 /\ last[Len(last)] \in ExtensionTokens
             THEN last[Len(last)] ELSE ""

\* path.dirname
dirname(p) ==
  LET segs == Normalize(Segments(p), <<>>)
  IN IF Len(segs) <= 1 THEN <<Sep>> ELSE Join(SubSeq(segs, 1, Len(segs) - 1))

\* the files the disk holds before the first call: three in the working
\* directory, one in a sibling directory whose name starts with the working
\* directory's name, one elsewhere
InitialDisk ==
  (<<Sep, "work", Sep, "notes", ".txt">> :> <<"n">>) @@
  (<<Sep, "work", Sep, "run", ".sh">> :> <<"r">>) @@
  (<<Sep, "work", Sep, ".env">> :> <<"secret">>) @@
  (<<Sep, "work", "-evil", Sep, "x", ".txt">> :> <<"x">>) @@
  (<<Sep, "etc", Sep, "hosts", ".txt">> :> <<"h">>)

\* params.path of the calls
ParamPaths ==
  { <<"notes", ".txt">>,
    <<"run", ".sh">>,
    <<".env">>,
    <<"new", ".md">>,
    <<".">>,
    <<"sub", Sep, "..", Sep, "notes", ".txt">>,
    <<"..", Sep, "work", "-evil", Sep, "x", ".txt">>,
    <<"..", Sep, "etc">>,
    <<Sep, "etc", Sep, "hosts", ".txt">> }

Operations == {"read", "write", "list", "exists", "delete"}

\* the params of the calls; write comes with and without content
FsParams ==
  {[operation |-> op, path |-> p, hasContent |-> h, content |-> <<"w">>] :
     op \in Operations, p \in ParamPaths, h \in BOOLEAN} \
  {q \in [operation : Operations \ {"write"}, path : ParamPaths,
          hasContent : {TRUE}, content : {<<"w">>}] : TRUE}

\* what is on disk at a path
IsFile(d, p) == p \in DOMAIN d
IsDirectory(d, p) ==
  \E f \in DOMAIN d : p = <<Sep>> \/ startsWith(f, p \o <<Sep>>)

\* readdir: the names directly under directory p, with their types
Entries(d, p) ==
  LET depth == Len(Normalize(Segments(p), <<>>))
  IN {[name |-> Normalize(Segments(f), <<>>)[depth + 1],
       type |-> IF Len(Normalize(Segments(f), <<>>)) = depth + 1
                THEN "file" ELSE "directory"] :
        f \in {g \in DOMAIN d : p = <<Sep>> \/ startsWith(g, p \o <<Sep>>)}}

\* one call of an fs function
FsCall(fn, p) == [fn |-> fn, path |-> p]

\* execute(params) on disk d: the disk after it, the fs functions it called
\* and the MCPToolResult it returns. The two checks throw before any fs
\* call; every throw inside the try ends in the failure result of the catch.
execute(tool, d, callParams) ==
  LET resolvedPath == resolve(tool.workingDirectory, callParams.path)
      ext == extname(resolvedPath)
      failure(message, ops) ==
        [disk |-> d, ops |-> ops, resolvedPath |-> resolvedPath,
         result |-> ToolResult(FALSE, FALSE, <<>>, TRUE, message, 0)]
      success(result, ops, d1) ==
        [disk |-> d1, ops |-> ops, resolvedPath |-> resolvedPath,
         result |-> ToolResult(TRUE, TRUE, result, FALSE, <<>>, 0)]
      enoent == IF IsDirectory(d, resolvedPath) THEN <<"EISDIR">> ELSE <<"ENOENT">>
  IN IF ~startsWith(resolvedPath, tool.workingDirectory)
     THEN failure(<<"Path outside working directory">>, <<>>)
     ELSE IF callParams.operation # "list" /\ ext # "" /\ ext \notin tool.allowedExtensions
     THEN failure(<<"File extension", ext, "not allowed">>, <<>>)
     ELSE CASE callParams.operation = "read" ->
                 IF IsFile(d, resolvedPath)
                 THEN success([content |-> d[resolvedPath], path |-> callParams.path,
                               absolutePath |-> resolvedPath],
                              <<FsCall("readFile", resolvedPath), FsCall("stat", resolvedPath)>>, d)
                 ELSE failure(enoent, <<FsCall("readFile", resolvedPath)>>)
            [] callParams.operation = "write" ->
                 IF ~callParams.hasContent
                 THEN failure(<<"Content required for write operation">>, <<>>)
                 ELSE IF IsDirectory(d, resolvedPath)
                 THEN failure(<<"EISDIR">>,
                              <<FsCall("mkdir", dirname(resolvedPath)),
                                FsCall("writeFile", resolvedPath)>>)
                 ELSE success([written |-> TRUE, path |-> callParams.path,
                               absolutePath |-> resolvedPath],
                              <<FsCall("mkdir", dirname(resolvedPath)),
                                FsCall("writeFile", resolvedPath),
                                FsCall("stat", resolvedPath)>>,
                              [f \in DOMAIN d \cup {resolvedPath} |->
                                 IF f = resolvedPath THEN callParams.content ELSE d[f]])
            [] callParams.operation = "list" ->
                 IF IsDirectory(d, resolvedPath)
                 THEN success(Entries(d, resolvedPath), <<FsCall("readdir", resolvedPath)>>, d)
                 ELSE failure(IF IsFile(d, resolvedPath) THEN <<"ENOTDIR">> ELSE <<"ENOENT">>,
                              <<FsCall("readdir", resolvedPath)>>)
            [] callParams.operation = "exists" ->
                 success([exists |-> IsFile(d, resolvedPath) \/ IsDirectory(d, resolvedPath)],
                         <<FsCall("access", resolvedPath)>>, d)
            [] OTHER ->
                 IF IsFile(d, resolvedPath)
                 THEN success([deleted |-> TRUE, path |-> resolvedPath],
                              <<FsCall("unlink", resolvedPath)>>,
                              [f \in DOMAIN d \ {resolvedPath} |-> d[f]])
                 ELSE failure(enoent, <<FsCall("unlink", resolvedPath)>>)

\* a caller calls execute(params)
FsExecute(callParams) ==
  /\ Len(fsLog) < MaxFsCalls
  /\ LET r == execute(fsTool, disk, callParams)
     IN /\ disk' = r.disk
        /\ fsLog' = Append(fsLog, [params |-> callParams, resolvedPath |-> r.resolvedPath,
                                   ops |-> r.ops, result |-> r.result,
                                   before |-> disk, after |-> r.disk])
  /\ UNCHANGED fsTool

(* ------------------- runIterativeParallelWorkflow --------------------- *)
\* The iterative strategy repeats the Parallel pattern: map the branches,
\* join, merge in declaration order, call the then agent. The then output is
\* recorded and passed through the convergence check; the loop ends when the
\* check says converged or when max_iterations cycles have run, and ending
\* on the budget is a normal return. Otherwise the branches are mapped again
\* on the context that now holds the then output.

\* faulty variant: the budget test lets one cycle too many through
budgetRemainsInclusive(cycles, feedbackLoop) == cycles <= feedbackLoop.max_iterations

\* cycles run so far are fewer than max_iterations
budgetRemains(cycles, feedbackLoop) == cycles < feedbackLoop.max_iterations

\* the strategy runWorkflow has called is the iterative one
Iterative == invoked = <<"runIterativeParallelWorkflow">>

\* the first cycle starts as the Parallel pattern does
StartIterativeParallel == StartParallel

\* the awaited llm.generate of the then agent resolves with `out` in a cycle
\* of the feedback loop, and the convergence check answers `converged`
FeedbackThenComplete(out, converged) ==
  /\ pc = "then"
  /\ Iterative
  /\ LET c          == calls[Len(calls)]
         finalAgent == getAgent(config.then)
         t          == now + 1
         ctx1       == recordOutput(context, TimelineEntry(finalAgent, out, c.startedAt, t))
         cs1        == [calls EXCEPT ![Len(calls)] = Answered(@, out, t)]
         vs         == Append(verdicts, converged)
     IN /\ now' = t
        /\ context' = ctx1
        /\ verdicts' = vs
        /\ IF converged \/ ~budgetRemains(Len(vs), config.feedback_loop)
           THEN /\ pc' = "done"
                /\ calls' = cs1
                /\ UNCHANGED <<err, branchPromises>>
           ELSE LET r == mapBranches(config.branches, ctx1, cs1, t)
                IN /\ branchPromises' = r.promises
                   /\ calls' = r.calls
                   /\ IF someRejected(r.promises)
                      THEN pc' = "failed" /\ err' = "config"
                      ELSE pc' = "branches" /\ err' = err
  /\ UNCHANGED <<config, stepIdx, invoked>>

(* ----------------------------- runWorkflow ---------------------------- *)
\* faulty variant: a feedback_loop that is present counts as enabled
feedbackPresent(cfg) == "feedback_loop" \in DOMAIN cfg

\* feedbackLoop?.enabled, feedbackLoop being config.workflow.then.feedback_loop:
\* undefined, hence falsy, when the configuration carries none
feedbackEnabled(cfg) ==
  IF "feedback_loop" \in DOMAIN cfg THEN cfg.feedback_loop.enabled ELSE FALSE

\* The two type tests of runWorkflow; a type that matches neither falls
\* through both and the function returns. A parallel workflow goes to the
\* iterative strategy when its feedback_loop is enabled and to
\* runParallelWorkflow otherwise.
runWorkflow ==
  /\ pc = "idle"
  /\ IF config.type = "sequential"
     THEN /\ StartSequential
          /\ invoked' = Append(invoked, "runSequentialWorkflow")
     ELSE IF config.type = "parallel"
     THEN IF feedbackEnabled(config)
          THEN /\ StartIterativeParallel
               /\ invoked' = Append(invoked, "runIterativeParallelWorkflow")
          ELSE /\ StartParallel
               /\ invoked' = Append(invoked, "runParallelWorkflow")
     ELSE /\ pc' = "done"
          /\ UNCHANGED <<context, err, stepIdx, branchPromises, calls, now, invoked>>
  /\ UNCHANGED <<config, verdicts>>

\* no registry query, sandbox call or prompt call is under way
RegistryIdle ==
  /\ regHistory = <<>>
  /\ regOrder = <<>>
  /\ regCall = NoRegCall

\* no execute call was made
SandboxIdle ==
  /\ isolates = <<>>
  /\ execs = [c \in Callers |-> IdleExec]
  /\ execCount = 0

\* buildPrompt is not called outside a run
PromptIdle ==
  /\ promptContext = EmptyContext
  /\ promptLog = <<>>

\* no FilesystemTool call is made
FsIdle ==
  /\ fsTool = FilesystemTool(NoFsConfig)
  /\ disk = InitialDisk
  /\ fsLog = <<>>

LaterIdle == RegistryIdle /\ SandboxIdle /\ PromptIdle /\ FsIdle

Init ==
  /\ config \in Configs
  /\ context = EmptyContext
  /\ pc = "idle"
  /\ err = "none"
  /\ stepIdx = 0
  /\ branchPromises = <<>>
  /\ calls = <<>>
  /\ now = 0
  /\ invoked = <<>>
  /\ verdicts = <<>>
  /\ params = IdleParams
  /\ loop = IdleLoop
  /\ llmLog = <<>>
  /\ toolLog = <<>>
  /\ toolRegistry = InitialRegistry
  /\ LaterIdle

\* what a step of the sequential or the parallel strategy leaves alone
StrategyFrame == UNCHANGED <<toolVars, laterVars, invoked, verdicts>>

Next ==
  \/ runWorkflow /\ UNCHANGED <<toolVars, laterVars>>
  \/ \E out \in Outputs : StepComplete(out) /\ StrategyFrame
  \/ StepFail /\ StrategyFrame
  \/ \E i \in 1..MaxBranches, out \in Outputs : BranchComplete(i, out) /\ StrategyFrame
  \/ \E i \in 1..MaxBranches : BranchFail(i) /\ StrategyFrame
  \/ JoinThen /\ StrategyFrame
  \/ \E out \in Outputs : ThenComplete(out) /\ StrategyFrame
  \/ ThenFail /\ StrategyFrame

Spec == Init /\ [][Next]_vars

\* one call of runWorkflow on a configuration that may carry a feedback loop
InitFeedback ==
  /\ config \in FeedbackConfigs
  /\ context = EmptyContext
  /\ pc = "idle"
  /\ err = "none"
  /\ stepIdx = 0
  /\ branchPromises = <<>>
  /\ calls = <<>>
  /\ now = 0
  /\ invoked = <<>>
  /\ verdicts = <<>>
  /\ params = IdleParams
  /\ loop = IdleLoop
  /\ llmLog = <<>>
  /\ toolLog = <<>>
  /\ toolRegistry = InitialRegistry
  /\ LaterIdle

\* the then agent of runParallelWorkflow answers only in a run of that strategy
NextFeedback ==
  \/ runWorkflow /\ UNCHANGED <<toolVars, laterVars>>
  \/ \E out \in Outputs : StepComplete(out) /\ StrategyFrame
  \/ StepFail /\ StrategyFrame
  \/ \E i \in 1..MaxBranches, out \in Outputs : BranchComplete(i, out) /\ StrategyFrame
  \/ \E i \in 1..MaxBranches : BranchFail(i) /\ StrategyFrame
  \/ JoinThen /\ StrategyFrame
  \/ \E out \in Outputs : ~Iterative /\ ThenComplete(out) /\ StrategyFrame
  \/ \E out \in Outputs, converged \in BOOLEAN :
        FeedbackThenComplete(out, converged) /\ UNCHANGED <<toolVars, laterVars>>
  \/ ThenFail /\ StrategyFrame

SpecFeedback == InitFeedback /\ [][NextFeedback]_vars

\* one generateWithTools call on the registry as initialised; no workflow runs
InitTools ==
  /\ params \in ParamsSet
  /\ loop = IdleLoop
  /\ llmLog = <<>>
  /\ toolLog = <<>>
  /\ toolRegistry = InitialRegistry
  /\ now = 0
  /\ config = [type |-> "sequential", steps |-> <<>>, branches |-> <<>>, then |-> "",
               mcpRegistry |-> TRUE]
  /\ context = EmptyContext
  /\ pc = "idle"
  /\ err = "none"
  /\ stepIdx = 0
  /\ branchPromises = <<>>
  /\ calls = <<>>
  /\ invoked = <<>>
  /\ verdicts = <<>>
  /\ LaterIdle

NextTools ==
  \/ generateWithTools /\ UNCHANGED laterVars
  \/ \E response \in Responses : LLMRespond(response) /\ UNCHANGED laterVars
  \/ LLMFail /\ UNCHANGED laterVars
  \/ \E outcome \in ProviderOutcomes : ProviderSettle(outcome) /\ UNCHANGED laterVars

SpecTools == InitTools /\ [][NextTools]_vars

\* no workflow runs
EngineIdle ==
  /\ config = [type |-> "sequential", steps |-> <<>>, branches |-> <<>>, then |-> "",
               mcpRegistry |-> TRUE]
  /\ context = EmptyContext
  /\ pc = "idle"
  /\ err = "none"
  /\ stepIdx = 0
  /\ branchPromises = <<>>
  /\ calls = <<>>
  /\ now = 0
  /\ invoked = <<>>
  /\ verdicts = <<>>

\* no generateWithTools call is made
ToolsIdle ==
  /\ params = IdleParams
  /\ loop = IdleLoop
  /\ llmLog = <<>>
  /\ toolLog = <<>>

\* a registry as constructed: callers register providers and query it
InitRegistry ==
  /\ toolRegistry = EmptyRegistry
  /\ LaterIdle
  /\ EngineIdle
  /\ ToolsIdle

NextRegistry ==
  \/ \E name \in ProviderNames : Register(name) /\ UNCHANGED <<engineVars, now, toolsCallVars, sandboxVars, promptVars, fsVars>>
  \/ ListTools /\ UNCHANGED <<engineVars, now, toolsCallVars, sandboxVars, promptVars, fsVars>>
  \/ \E toolNames \in SeqsUpTo(QueryNames, MaxNames) :
       GetToolsForAgent(toolNames) /\ UNCHANGED <<engineVars, now, toolsCallVars, sandboxVars, promptVars, fsVars>>
  \/ \E toolName \in QueryNames, outcome \in ProviderOutcomes :
       ExecuteTool(toolName, outcome) /\ UNCHANGED <<engineVars, now, toolsCallVars, sandboxVars, promptVars, fsVars>>

SpecRegistry == InitRegistry /\ [][NextRegistry]_vars

\* one CodeExecutionTool with the default configuration, called by two callers
InitSandbox ==
  /\ toolRegistry = InitialRegistry
  /\ LaterIdle
  /\ EngineIdle
  /\ ToolsIdle

NextSandbox ==
  \/ \E c \in Callers, language \in Languages, code \in Codes, created \in BOOLEAN :
       Execute(c, language, code, created)
       /\ UNCHANGED <<engineVars, toolsCallVars, toolRegistry, registryVars, promptVars, fsVars>>
  \/ \E c \in Callers, ok \in BOOLEAN :
       Setup(c, ok) /\ UNCHANGED <<engineVars, toolsCallVars, toolRegistry, registryVars, promptVars, fsVars>>
  \/ \E c \in Callers :
       ScriptBind(c) /\ UNCHANGED <<engineVars, toolsCallVars, toolRegistry, registryVars, promptVars, fsVars>>
  \/ \E c \in Callers :
       ScriptSettle(c) /\ UNCHANGED <<engineVars, toolsCallVars, toolRegistry, registryVars, promptVars, fsVars>>
  \/ \E c \in Callers :
       Finally(c) /\ UNCHANGED <<engineVars, toolsCallVars, toolRegistry, registryVars, promptVars, fsVars>>

SpecSandbox == InitSandbox /\ [][NextSandbox]_vars

\* execute called on a FilesystemTool as constructed, on the disk as found
InitFilesystem ==
  /\ fsTool \in {FilesystemTool(cfg) : cfg \in FsConfigs}
  /\ disk = InitialDisk
  /\ fsLog = <<>>
  /\ RegistryIdle
  /\ SandboxIdle
  /\ PromptIdle
  /\ toolRegistry = InitialRegistry
  /\ EngineIdle
  /\ ToolsIdle

NextFilesystem ==
  \E callParams \in FsParams :
    FsExecute(callParams)
    /\ UNCHANGED <<engineVars, now, toolVars, registryVars, sandboxVars, promptVars>>

SpecFilesystem == InitFilesystem /\ [][NextFilesystem]_vars

\* buildPrompt called on a given context, by callers acting for the agents
InitPrompt ==
  /\ promptContext \in PromptContexts
  /\ promptLog = <<>>
  /\ RegistryIdle
  /\ SandboxIdle
  /\ FsIdle
  /\ toolRegistry = InitialRegistry
  /\ EngineIdle
  /\ ToolsIdle

NextPrompt ==
  \E id \in Registered :
    BuildPrompt(id) /\ UNCHANGED <<engineVars, toolVars, registryVars, sandboxVars, fsVars>>

SpecPrompt == InitPrompt /\ [][NextPrompt]_vars

(* ======================= properties of the engine ===================== *)
IsSequential == config.type = "sequential"
IsParallel   == config.type = "parallel"
AgentIdsOf(tl) == [j \in 1..Len(tl) |-> tl[j].agentId]
BranchValues == [i \in 1..Len(branchPromises) |-> branchPromises[i].value]
\* the user text rendered for a context holding exactly `entries`
UserTextFor(entries) ==
  buildPrompt(getAgent("A"), [EmptyContext EXCEPT !.timeline = entries]).user
NamesUnregistered ==
  \/ \E k \in 1..Len(config.steps) : getAgentThrows(config.steps[k])
  \/ \E i \in 1..Len(config.branches) : getAgentThrows(config.branches[i])
  \/ (IsParallel /\ getAgentThrows(config.then))

\* C1: a parallel run that reaches the final agent has appended the branch
\* records in branch-declaration order, whatever the order the backend
\* answered in, and a completed run has the final agent's record after them.
C1_TimelineInDeclarationOrder ==
  (IsParallel /\ pc \in {"then", "done"}) =>
    LET tl == context.timeline
        n  == Len(config.branches)
    IN /\ Len(tl) = n + (IF pc = "done" THEN 1 ELSE 0)
       /\ AgentIdsOf(tl) = config.branches \o (IF pc = "done" THEN <<config.then>> ELSE <<>>)
       /\ \A i \in 1..n :
            /\ tl[i] = branchPromises[i].value
            /\ tl[i].output = calls[branchPromises[i].call].output
            /\ tl[i].endedAt = calls[branchPromises[i].call].endedAt

\* C1 witness: a completed run whose second branch answered before its first
C1_Witness ==
  /\ IsParallel
  /\ pc = "done"
  /\ config.branches = <<"A", "B">>
  /\ config.then = "C"
  /\ branchPromises[2].value.endedAt < branchPromises[1].value.endedAt

\* C2: every branch prompt is the rendering of the context as it was when the
\* run started (no previous-outputs section, no backend text in it), and the
\* context stays as it was while branches are in flight.
C2_BranchPromptsFromStartContext ==
  /\ \A k \in 1..Len(calls) :
       calls[k].phase = "branch" =>
         /\ calls[k].user = UserTextFor(<<>>)
         /\ calls[k].user = <<"User input:", "\n">> \o UserInput
         /\ calls[k].startedAt = 0
  /\ (IsParallel /\ pc \in {"idle", "branches"}) => context = EmptyContext

\* C2 witness: two branches, the first has answered, the second is in flight
C2_Witness ==
  /\ IsParallel
  /\ pc = "branches"
  /\ Len(branchPromises) = 2
  /\ branchPromises[1].status = "fulfilled"
  /\ branchPromises[2].status = "pending"
  /\ calls[branchPromises[2].call].user = <<"User input:", "\n">> \o UserInput

\* C3: once the backend call of a branch has failed, the run has failed, no
\* call for the final agent exists, and outputs and timeline are as before
\* the run, also after the siblings still in flight have answered.
C3_BranchFailureMergesNothing ==
  (\E i \in 1..Len(branchPromises) :
      branchPromises[i].status = "rejected" /\ branchPromises[i].call # 0) =>
    /\ pc = "failed"
    /\ err \in {"backend", "config"}
    /\ context = EmptyContext
    /\ \A k \in 1..Len(calls) : calls[k].phase # "then"

\* C3 witness: branch 1 failed, branch 2 answered after that
C3_Witness ==
  /\ Len(branchPromises) = 2
  /\ branchPromises[1].status = "rejected"
  /\ branchPromises[1].call # 0
  /\ branchPromises[2].status = "fulfilled"
  /\ calls[branchPromises[1].call].endedAt < branchPromises[2].value.endedAt
  /\ err = "backend"

\* C4: the final agent's call exists only when every branch call has been
\* answered and every branch result is in the context; it is issued no
\* earlier than the last branch answer and its prompt renders every branch.
C4_ThenAfterJoin ==
  \A k \in 1..Len(calls) :
    calls[k].phase = "then" =>
      /\ k = Len(calls)
      /\ Len(branchPromises) = Len(config.branches)
      /\ \A i \in 1..Len(branchPromises) :
           /\ branchPromises[i].status = "fulfilled"
           /\ calls[branchPromises[i].call].status = "ok"
           /\ branchPromises[i].value.endedAt <= calls[k].startedAt
           /\ Len(context.timeline) >= Len(branchPromises)
           /\ context.timeline[i] = branchPromises[i].value
           /\ branchPromises[i].value.agentId \in DOMAIN context.outputs
      /\ calls[k].user = UserTextFor(BranchValues)

\* C4 witness: the final agent's call is in flight after two branches
C4_Witness ==
  /\ pc = "then"
  /\ Len(branchPromises) = 2
  /\ calls[Len(calls)].phase = "then"
  /\ calls[Len(calls)].status = "pending"

\* C5: a completed sequential run has exactly one record per step, the i-th
\* being the i-th step's agent with the text its call returned, and outputs
\* has exactly the agent ids of the steps.
C5_SequentialRecords ==
  (IsSequential /\ pc = "done") =>
    LET tl == context.timeline
    IN /\ Len(tl) = Len(config.steps)
       /\ AgentIdsOf(tl) = config.steps
       /\ Len(calls) = Len(config.steps)
       /\ \A i \in 1..Len(tl) : tl[i].output = calls[i].output /\ calls[i].status = "ok"
       /\ DOMAIN context.outputs = {config.steps[i] : i \in 1..Len(config.steps)}

\* C5 witness: three steps, one agent used twice
C5_Witness ==
  /\ IsSequential
  /\ pc = "done"
  /\ config.steps = <<"A", "B", "A">>
  /\ Len(context.timeline) = 3

\* C6: the call of step k is issued only when the records of steps 1..k-1 are
\* in the timeline and their outputs stored; its prompt renders exactly those
\* records in step order.
C6_StepWaitsForPrior ==
  IsSequential =>
    /\ Len(calls) <= Len(context.timeline) + 1
    /\ \A k \in 1..Len(calls) :
         /\ calls[k].idx = k
         /\ calls[k].agentId = config.steps[k]
         /\ Len(context.timeline) >= k - 1
         /\ calls[k].user = UserTextFor(SubSeq(context.timeline, 1, k - 1))
         /\ \A j \in 1..(k - 1) :
              /\ context.timeline[j].agentId = config.steps[j]
              /\ context.timeline[j].endedAt <= calls[k].startedAt
              /\ config.steps[j] \in DOMAIN context.outputs

\* C6 witness: the third step's call is in flight
C6_Witness ==
  /\ IsSequential
  /\ pc = "seq"
  /\ Len(calls) = 3
  /\ Len(context.timeline) = 2

\* C7: after a successful run the timeline holds one record per backend call
\* made (one per step, or one per branch plus one), also with repeated agent
\* ids, and outputs has an entry for every invoked agent id.
C7_OneRecordPerInvocation ==
  pc = "done" =>
    /\ Len(context.timeline) = Len(calls)
    /\ Len(calls) = (IF IsSequential THEN Len(config.steps)
                     ELSE IF IsParallel THEN Len(config.branches) + 1 ELSE 0)
    /\ \A k \in 1..Len(calls) :
         /\ calls[k].status = "ok"
         /\ calls[k].agentId \in DOMAIN context.outputs
    /\ \A a \in AgentIds :
         Cardinality({j \in 1..Len(context.timeline) : context.timeline[j].agentId = a})
           = Cardinality({k \in 1..Len(calls) : calls[k].agentId = a})

\* C7 witness: one agent is both branches and the final agent
C7_Witness ==
  /\ IsParallel
  /\ pc = "done"
  /\ config.branches = <<"A", "A">>
  /\ config.then = "A"
  /\ Len(context.timeline) = 3

\* C8 (as claimed): a run with a workflow type that is neither sequential nor
\* parallel ends in a configuration error, with no backend call made.
C8_UnknownTypeRaises ==
  (config.type \notin {"sequential", "parallel"} /\ pc # "idle") =>
    /\ pc = "failed"
    /\ err = "config"
    /\ calls = <<>>

\* C9 (as claimed): a run whose configuration names an unregistered agent id
\* fails with the configuration error before any backend call is made.
C9_FailsBeforeAnyCall ==
  (NamesUnregistered /\ pc # "idle") =>
    /\ pc = "failed"
    /\ err = "config"
    /\ calls = <<>>

\* C9 (amended): the lookup raises at the first use of the unregistered id.
\* No backend call is ever made for an unregistered id and the run never
\* completes. A sequential run has made exactly the calls of the steps before
\* the first unregistered one when it fails with the configuration error. A
\* parallel run with an unregistered branch fails with the configuration
\* error at once, having issued the calls of all its registered branches and
\* none for the final agent. A parallel run whose final agent alone is
\* unregistered fails with it after all branch calls were answered and merged.
C9_FailsAtFirstUse ==
  /\ \A k \in 1..Len(calls) : ~getAgentThrows(calls[k].agentId)
  /\ (NamesUnregistered /\ pc # "idle") =>
       /\ pc # "done"
       /\ IsSequential =>
            LET m == CHOOSE m \in 1..Len(config.steps) :
                       /\ getAgentThrows(config.steps[m])
                       /\ \A j \in 1..(m - 1) : ~getAgentThrows(config.steps[j])
            IN /\ Len(calls) <= m - 1
               /\ (pc = "failed" /\ \A k \in 1..Len(calls) : calls[k].status = "ok") =>
                    (err = "config" /\ Len(calls) = m - 1 /\ Len(context.timeline) = m - 1)
               /\ err = "config" => (pc = "failed" /\ Len(calls) = m - 1)
       /\ (IsParallel /\ \E i \in 1..Len(config.branches) : getAgentThrows(config.branches[i])) =>
            /\ pc = "failed"
            /\ err = "config"
            /\ Len(calls) = Issued(config.branches, Len(config.branches))
            /\ \A i \in 1..Len(config.branches) :
                 ~getAgentThrows(config.branches[i]) =>
                   \E k \in 1..Len(calls) : calls[k].phase = "branch" /\ calls[k].idx = i
            /\ \A k \in 1..Len(calls) : calls[k].phase = "branch"
            /\ context = EmptyContext
       /\ (IsParallel /\ \A i \in 1..Len(config.branches) : ~getAgentThrows(config.branches[i])) =>
            /\ pc \in {"branches", "failed"}
            /\ Len(calls) = Len(config.branches)
            /\ err = "config" =>
                 /\ allFulfilled(branchPromises)
                 /\ AgentIdsOf(context.timeline) = config.branches

\* C9 witness: the configuration error is raised with backend calls made
C9_Witness ==
  /\ pc = "failed"
  /\ err = "config"
  /\ Len(calls) = 2
  /\ \E k \in 1..Len(calls) : calls[k].status = "ok"

\* C10 (as claimed): with a tool registry passed, the output of an agent that
\* declares a non-empty tools list comes from generateWithTools; an agent
\* without tools gets a plain backend call.
C10_ToolAgentsUseToolLoop ==
  \A k \in 1..Len(calls) :
    LET agent == getAgent(calls[k].agentId)
    IN IF config.mcpRegistry /\ Len(agent.tools) > 0
       THEN calls[k].via = "generateWithTools"
       ELSE calls[k].via = "generate"

(* ------------------- properties of generateWithTools ------------------ *)
\* the bound the caller asked for: the value passed, 5 when none was passed
ClaimedBound ==
  IF params.hasMaxToolCalls THEN params.maxToolCalls ELSE DefaultMaxToolCalls

Ended == loop.pc \in {"returned", "failed"}

\* the response holds an open tag with a close tag somewhere after it
HasBlock(response) ==
  \E i \in Positions(response, OpenTag) :
    \E j \in Positions(response, CloseTag) : j > i

\* the text between the first open tag and the first close tag after it
FirstBlock(response) ==
  LET i == Min(Positions(response, OpenTag))
      j == Min({k \in Positions(response, CloseTag) : k > i})
  IN SubSeq(response, i + 1, j - 1)

\* the first block is JSON
FirstBlockParses(response) ==
  /\ HasBlock(response)
  /\ Len(Trim(FirstBlock(response))) = 1
  /\ JSONparse(Trim(FirstBlock(response))[1]).ok

\* the first block is JSON with a tool field
WellFormedCall(response) ==
  /\ FirstBlockParses(response)
  /\ JSONparse(Trim(FirstBlock(response))[1]).tool # Undefined

\* C11 (as claimed): when every backend response held a well-formed tool-call
\* block, the run ends with the max-iterations failure after exactly
\* maxToolCalls backend calls, with exactly maxToolCalls tool calls executed
\* and recorded.
C11_ExhaustsAfterMaxToolCalls ==
  (/\ Ended
   /\ \A i \in DOMAIN llmLog :
        llmLog[i].status = "ok" /\ WellFormedCall(llmLog[i].response)) =>
    /\ loop.pc = "failed"
    /\ loop.err = "max"
    /\ Len(llmLog) = ClaimedBound
    /\ Len(toolLog) = ClaimedBound
    /\ Len(loop.toolCalls) = ClaimedBound

\* C12: when the first backend response holds no tool-call block, the run has
\* returned after that one backend call, with that response as output, an
\* empty toolCalls list and no tool executed.
C12_NoBlockReturnsAtOnce ==
  (/\ Len(llmLog) >= 1
   /\ llmLog[1].status = "ok"
   /\ ~HasBlock(llmLog[1].response)) =>
    /\ loop.pc = "returned"
    /\ Len(llmLog) = 1
    /\ loop.output = llmLog[1].response
    /\ loop.toolCalls = <<>>
    /\ toolLog = <<>>

C12_Witness ==
  /\ loop.pc = "returned"
  /\ Len(llmLog) = 1
  /\ ~HasBlock(llmLog[1].response)
  /\ Positions(llmLog[1].response, OpenTag) # {}
  /\ params.tools # <<>>

\* C13 (as claimed): a run makes at most maxToolCalls backend calls and
\* executes at most maxToolCalls tools, maxToolCalls being the value the
\* caller passed, 5 when none was passed.
C13_BoundedByMaxToolCalls ==
  /\ Len(llmLog) <= ClaimedBound
  /\ Len(toolLog) <= ClaimedBound

\* C14 (as claimed): a response whose first tool-call block is not JSON, or
\* is JSON without a tool field, is the final answer: it is the last backend
\* response of the run, no tool is executed in its round, and the run has
\* returned it as output.
C14_MalformedBlockIsFinal ==
  \A i \in DOMAIN llmLog :
    (/\ llmLog[i].status = "ok"
     /\ HasBlock(llmLog[i].response)
     /\ ~WellFormedCall(llmLog[i].response)) =>
      /\ i = Len(llmLog)
      /\ loop.pc = "returned"
      /\ loop.output = llmLog[i].response
      /\ \A k \in DOMAIN toolLog : toolLog[k].round # i

\* the call the first block of a response describes
FirstBlockCall(response) ==
  LET parsed == JSONparse(Trim(FirstBlock(response))[1])
  IN [toolName |-> parsed.tool,
      parameters |-> IF parsed.hasParameters THEN parsed.parameters ELSE <<"{", "}">>]

\* C15: no two tool executions belong to the same round, the tool executed in
\* a round is the one the first block of that round's response names, and at
\* most one execution is under way at any time, with no backend call pending
\* beside it.
C15_OneToolPerRoundFirstBlock ==
  /\ \A k, l \in DOMAIN toolLog : k # l => toolLog[k].round # toolLog[l].round
  /\ \A k \in DOMAIN toolLog :
       /\ toolLog[k].round \in DOMAIN llmLog
       /\ llmLog[toolLog[k].round].status = "ok"
       /\ FirstBlockParses(llmLog[toolLog[k].round].response)
       /\ toolLog[k].toolName = FirstBlockCall(llmLog[toolLog[k].round].response).toolName
       /\ toolLog[k].parameters = FirstBlockCall(llmLog[toolLog[k].round].response).parameters
  /\ Cardinality({k \in DOMAIN toolLog : toolLog[k].status = "running"}) <= 1
  /\ \A k \in DOMAIN toolLog :
       toolLog[k].status = "running" =>
         /\ k = Len(toolLog)
         /\ \A i \in DOMAIN llmLog : llmLog[i].status # "pending"

\* two rounds whose responses held two blocks each have run their tools
C15_Witness ==
  /\ Len(toolLog) >= 2
  /\ \A k \in 1..2 :
       /\ Cardinality(Positions(llmLog[toolLog[k].round].response, OpenTag)) = 2
       /\ toolLog[k].providerRan
       /\ toolLog[k].status = "returned"

\* an execution that is over and did not succeed
ExecutionFailed(k) ==
  /\ toolLog[k].status # "running"
  /\ ~toolLog[k].result.success

\* C16: a failed tool execution (unknown name, provider exception, failure
\* reported by the provider) does not end the run: executeTool returned a
\* result, the call is in toolCalls, and either the next round's backend call
\* was issued with the failure result appended to the prompt, or the round
\* was the last the bound allows and the run ended with the max-iterations
\* failure.
C16_ToolFailureKeepsLooping ==
  /\ loop.err # "tool"
  /\ \A k \in DOMAIN toolLog :
       ExecutionFailed(k) =>
         /\ toolLog[k].status = "returned"
         /\ k <= Len(loop.toolCalls)
         /\ loop.toolCalls[k].toolName = toolLog[k].toolName
         /\ loop.toolCalls[k].parameters = toolLog[k].parameters
         /\ IF toolLog[k].round < loop.maxIterations
            THEN /\ toolLog[k].round + 1 \in DOMAIN llmLog
                 /\ llmLog[toolLog[k].round + 1].user =
                      buildToolResultPrompt(llmLog[toolLog[k].round].user,
                                            toolLog[k], toolLog[k].result)
            ELSE /\ loop.pc = "failed"
                 /\ loop.err = "max"

\* one run in which an unknown tool, a throwing provider and a provider
\* reporting failure were all met, and a further round was started
C16_Witness ==
  /\ \E a, b, c \in DOMAIN toolLog :
       /\ ~toolLog[a].providerRan /\ ExecutionFailed(a)
       /\ toolLog[b].providerRan /\ toolLog[b].result.error = ThrownMessage
       /\ toolLog[c].providerRan /\ toolLog[c].result.error = <<"provider error">>
  /\ Len(llmLog) = 4
  /\ loop.pc = "awaitLLM"

\* C17 (as claimed): a run that ended with an error raised to its caller
\* reached the round bound without a final answer; every other ended run
\* returned a final text.
C17_OnlyExhaustionRaises ==
  Ended =>
    \/ loop.pc = "failed" /\ loop.err = "max"
    \/ loop.pc = "returned" /\ loop.output = llmLog[Len(llmLog)].response

\* C17 (amended): a run ends with an error raised to its caller in two ways
\* only. Either it used every round of its bound and each of them executed a
\* tool, or a backend call was rejected, and that rejection is what the
\* caller gets; a rejected backend call always ends the run so. Every other
\* ended run returned the text of its last backend response.
C17_RaisesOnExhaustionOrBackendFailure ==
  /\ Ended =>
       \/ /\ loop.pc = "failed"
          /\ loop.err = "max"
          /\ Len(llmLog) = loop.maxIterations
          /\ Len(toolLog) = loop.maxIterations
          /\ \A i \in DOMAIN llmLog : llmLog[i].status = "ok"
       \/ /\ loop.pc = "failed"
          /\ loop.err = "backend"
          /\ llmLog[Len(llmLog)].status = "error"
       \/ /\ loop.pc = "returned"
          /\ llmLog[Len(llmLog)].status = "ok"
          /\ loop.output = llmLog[Len(llmLog)].response
  /\ \A i \in DOMAIN llmLog :
       llmLog[i].status = "error" =>
         /\ i = Len(llmLog)
         /\ loop.pc = "failed"
         /\ loop.err = "backend"

\* the backend rejects the call of a later round, after a tool was executed
C17_Witness ==
  /\ loop.pc = "failed"
  /\ loop.err = "backend"
  /\ Len(llmLog) = 3
  /\ Len(loop.toolCalls) = 2

\* C18: when the run has returned, toolCalls lists the executeTool calls of
\* the run, one for one and in the order they were made, with increasing
\* timestamps; there is one tool call less than backend calls; output is the
\* last backend response.
C18_ReturnsAuditListAndLastResponse ==
  loop.pc = "returned" =>
    /\ Len(loop.toolCalls) = Len(toolLog)
    /\ \A k \in DOMAIN toolLog :
         /\ toolLog[k].status = "returned"
         /\ loop.toolCalls[k].toolName = toolLog[k].toolName
         /\ loop.toolCalls[k].parameters = toolLog[k].parameters
    /\ \A k, l \in DOMAIN toolLog :
         k < l => /\ toolLog[k].round < toolLog[l].round
                  /\ loop.toolCalls[k].timestamp < loop.toolCalls[l].timestamp
    /\ Len(loop.toolCalls) = Len(llmLog) - 1
    /\ loop.output = llmLog[Len(llmLog)].response

\* a run returns after a failed and a successful tool call
C18_Witness ==
  /\ loop.pc = "returned"
  /\ Len(loop.toolCalls) = 2
  /\ ~toolLog[1].result.success
  /\ toolLog[2].result.success
  /\ loop.toolCalls[1].toolName # loop.toolCalls[2].toolName

\* the result executeTool returns for a name that is not registered
NotFound(toolName) ==
  [success |-> FALSE, hasResult |-> FALSE, result |-> <<>>, hasError |-> TRUE,
   error |-> <<"Tool", toolName, "not found">>, executionTime |-> 0]

\* C19: every executeTool call with a name that is not registered has
\* returned {success: false, error: "Tool <name> not found", executionTime: 0}
\* without running a provider.
C19_UnknownToolNotFound ==
  \A k \in DOMAIN toolLog :
    toolLog[k].toolName \notin DOMAIN toolRegistry =>
      /\ toolLog[k].status = "returned"
      /\ ~toolLog[k].providerRan
      /\ toolLog[k].result = NotFound(toolLog[k].toolName)

C19_Witness ==
  \E k \in DOMAIN toolLog :
    /\ toolLog[k].toolName = "nosuch"
    /\ toolLog[k].status = "returned"

\* C20: no executeTool call raises; a call with an unknown name, a call whose
\* provider threw and a call whose provider reported failure each returned a
\* result with success = false and a non-empty error.
C20_ExecuteToolNeverRaises ==
  \A k \in DOMAIN toolLog :
    /\ toolLog[k].status # "raised"
    /\ (/\ toolLog[k].status = "returned"
        /\ \/ toolLog[k].toolName \notin DOMAIN toolRegistry
           \/ toolLog[k].outcome \in {"throw", "fail"}) =>
         /\ ~toolLog[k].result.success
         /\ toolLog[k].result.hasError
         /\ toolLog[k].result.error # <<>>

\* the three cases met in one run of three rounds
C20_Witness ==
  /\ Len(toolLog) = 3
  /\ toolLog[1].outcome = "throw"
  /\ toolLog[2].toolName \notin DOMAIN toolRegistry
  /\ toolLog[3].outcome = "fail"
  /\ toolLog[3].status = "returned"

(* -------------------- properties of MCPToolRegistry ------------------- *)
\* names passed to register so far
NamesIn(history) == {history[i].name : i \in 1..Len(history)}

\* the provider most recently registered under `name`
LatestIn(history, name) ==
  history[Max({i \in 1..Len(history) : history[i].name = name})]

\* C21: the registry holds exactly the names registered so far, each with the
\* provider most recently registered under it; executeTool runs that
\* provider; listTools has one schema per distinct name.
C21_LastRegistrationWins ==
  /\ DOMAIN toolRegistry = NamesIn(regHistory)
  /\ \A n \in DOMAIN toolRegistry : toolRegistry[n] = LatestIn(regHistory, n)
  /\ (regCall.op = "executeTool" /\ regCall.toolName \in NamesIn(regCall.history)) =>
       regCall.ran = LatestIn(regCall.history, regCall.toolName)
  /\ regCall.op = "listTools" =>
       /\ Len(regCall.ret) = Cardinality(NamesIn(regCall.history))
       /\ {regCall.ret[i].name : i \in 1..Len(regCall.ret)} = NamesIn(regCall.history)

\* a name is registered twice with another name in between, then executed
C21_Witness ==
  /\ Len(regHistory) = 3
  /\ regHistory[1].name = regHistory[3].name
  /\ regHistory[2].name # regHistory[1].name
  /\ regCall.op = "executeTool"
  /\ regCall.history = regHistory
  /\ regCall.ran = regHistory[3]

\* C22: getToolsForAgent returns the providers of the registered names among
\* toolNames, in the order of toolNames, leaves the others out and does not
\* raise.
C22_UnknownNamesDropped ==
  regCall.op = "getToolsForAgent" =>
    LET kept == SelectSeq(regCall.names, LAMBDA n : n \in DOMAIN regCall.reg)
    IN /\ ~regCall.raised
       /\ regCall.ret = [i \in 1..Len(kept) |-> regCall.reg[kept[i]]]

\* two registered names asked for in the reverse of their registration
\* order, with an unregistered name between them
C22_Witness ==
  /\ regCall.op = "getToolsForAgent"
  /\ regCall.names = <<"web_search", "nosuch", "filesystem">>
  /\ regOrder = <<"filesystem", "web_search">>
  /\ Len(regCall.ret) = 2

\* C23: a result executeTool returned with success = false carries no result
\* payload and carries an error text.
C23_FailureHasErrorNoPayload ==
  (regCall.op = "executeTool" /\ ~regCall.raised /\ ~regCall.ret.success) =>
    /\ ~regCall.ret.hasResult
    /\ regCall.ret.hasError

\* a registered provider threw, and another call's provider reported failure
C23_Witness ==
  /\ regCall.op = "executeTool"
  /\ regCall.outcome = "throw"
  /\ regCall.ran.gen = 2
  /\ ~regCall.ret.success

(* ------------------- properties of CodeExecutionTool ------------------ *)
AtRest(c) == execs[c].pc \in {"idle", "returned", "raised"}

\* the call of caller c created an isolate
Provisioned(c) == execs[c].isolate # 0

\* the user script of caller c's call was started
ScriptRan(c) == Provisioned(c) /\ execs[c].logs # <<>>

\* C24: no isolate created for a call of caller c is live once c's call has
\* returned; so when no call is under way no isolate is live.
C24_IsolatesDisposedOnReturn ==
  \A c \in Callers :
    AtRest(c) =>
      \A i \in 1..Len(isolates) : isolates[i].owner = c => ~isolates[i].live

\* three calls are over, one ended by the script's error and one by timeout
C24_Witness ==
  /\ \A c \in Callers : AtRest(c)
  /\ Len(isolates) = 3
  /\ execs[1].code = "spin" /\ ScriptRan(1)
  /\ execs[2].code = "throw" /\ ScriptRan(2)

\* C25: no execute call raises; a javascript call whose isolate could not be
\* created, whose context set-up failed, or whose script threw, timed out or
\* hit the memory limit (after which dispose raises) returned success=false
\* with an error text.
C25_ExecuteNeverRaises ==
  \A c \in Callers :
    /\ execs[c].pc # "raised"
    /\ (/\ execs[c].pc = "returned"
        /\ execs[c].language = "javascript"
        /\ (~Provisioned(c) \/ ~ScriptRan(c) \/ execs[c].code # "ret")) =>
         /\ ~execs[c].result.success
         /\ execs[c].result.hasError

\* one call failed creating its isolate, the other disposing it
C25_Witness ==
  /\ execs[1].pc = "returned"
  /\ execs[1].result.error = IsolateError
  /\ execs[2].pc = "returned"
  /\ execs[2].result.error = DisposedError

\* C26 (as claimed): a call whose script ran beyond the timeout returned
\* success=false with the timed-out message, and a call whose script
\* exceeded the memory limit returned success=false with the memory-limit
\* message.
C26_TimeoutAndMemoryClassified ==
  \A c \in Callers :
    (execs[c].pc = "returned" /\ ScriptRan(c)) =>
      /\ execs[c].code = "spin" =>
           ~execs[c].result.success /\ execs[c].result.error = TimeoutMessage
      /\ execs[c].code = "hog" =>
           ~execs[c].result.success /\ execs[c].result.error = MemoryMessage

\* C27: every call runs in an isolate created for it, two calls under way
\* never use the same isolate, a call's isolate holds no binding but its own
\* script's, and a call's log lines and return value are its own script's.
C27_ConcurrentCallsIsolated ==
  /\ \A c \in Callers :
       Provisioned(c) =>
         /\ isolates[execs[c].isolate].owner = c
         /\ isolates[execs[c].isolate].x \in {Unset, Marker(c)}
  /\ \A c, d \in Callers :
       (c # d /\ Provisioned(c) /\ Provisioned(d)) => execs[c].isolate # execs[d].isolate
  /\ \A c \in Callers :
       /\ \A i \in 1..Len(execs[c].logs) : execs[c].logs[i] = Marker(c)
       /\ (execs[c].pc = "returned" /\ execs[c].result.success) =>
            /\ execs[c].result.result.returnValue = Marker(c)
            /\ execs[c].result.result.output = <<Marker(c), Marker(c)>>

\* caller 2 started first and is still running its script when caller 1,
\* started after it, has returned its own value
C27_Witness ==
  /\ execs[2].isolate = 1
  /\ execs[2].pc = "running"
  /\ execs[1].isolate = 2
  /\ execs[1].pc = "returned"
  /\ execs[1].result.success

\* C28: a call with a language other than javascript has returned at once
\* {success: false, error: not-implemented message, executionTime: 0} and
\* created no isolate.
C28_OtherLanguagesNotImplemented ==
  \A c \in Callers :
    execs[c].language \notin {"javascript", ""} =>
      /\ execs[c].pc = "returned"
      /\ ~Provisioned(c)
      /\ ~execs[c].result.success
      /\ ~execs[c].result.hasResult
      /\ execs[c].result.error = PythonMessage
      /\ execs[c].result.executionTime = 0

C28_Witness ==
  /\ execs[1].language = "ruby"
  /\ execs[2].language = "python"
  /\ execCount = 2
  /\ isolates = <<>>

(* ----------------------- properties of buildPrompt -------------------- *)
\* `piece` stands in `text` from position p on
OccursAt(text, piece, p) ==
  /\ p >= 1
  /\ p + Len(piece) - 1 <= Len(text)
  /\ SubSeq(text, p, p + Len(piece) - 1) = piece

\* where the k-th "--- role (agentId) ---" line of `text` starts, 0 if none
BlockStart(text, k) ==
  LET starts == {p \in 1..Len(text) :
                   /\ text[p] = "---"
                   /\ Cardinality({q \in 1..(p - 1) : text[q] = "---"}) = 2 * (k - 1)}
  IN IF starts = {} THEN 0 ELSE Min(starts)

\* the header line of a record's block, and the block with the output
HeaderOf(entry) == <<"---", entry.role, "(", entry.agentId, ")", "---", "\n">>
VerbatimBlock(entry) == HeaderOf(entry) \o entry.output

\* C29 (as claimed): the user text holds the user input verbatim; with an
\* empty timeline it has no prior-output section; with a non-empty timeline
\* it has one block per record, in timeline order, the k-th block carrying
\* the k-th record's role, agentId and output verbatim.
C29_RecordsVerbatim ==
  \A n \in 1..Len(promptLog) :
    LET user == promptLog[n].result.user
        ctx  == promptLog[n].context
        tl   == ctx.timeline
    IN /\ OccursAt(user, <<"User input:", "\n">> \o ctx.userInput, 1)
       /\ tl = <<>> => \A p \in 1..Len(user) : user[p] \notin {"Previous agent outputs:", "---"}
       /\ tl # <<>> =>
            /\ Cardinality({p \in 1..Len(user) : user[p] = "Previous agent outputs:"}) = 1
            /\ Cardinality({p \in 1..Len(user) : user[p] = "---"}) = 2 * Len(tl)
            /\ \A k \in 1..Len(tl) : OccursAt(user, VerbatimBlock(tl[k]), BlockStart(user, k))

RECURSIVE BlocksOf(_)
BlocksOf(tl) ==
  IF tl = <<>> THEN <<>>
  ELSE <<"\n">> \o VerbatimBlock(Head(tl)) \o <<"\n">> \o BlocksOf(Tail(tl))

\* C29 (amended): the user text is the user-input section, followed for a
\* non-empty timeline by the prior-output section with one block per record
\* in timeline order, each with the record's role, agentId and output
\* verbatim, except that whitespace at the very end of the text is cut: the
\* end of the last record's output, or of the user input when the timeline
\* is empty.
C29_RecordsVerbatimUpToFinalTrim ==
  \A n \in 1..Len(promptLog) :
    LET user == promptLog[n].result.user
        ctx  == promptLog[n].context
        tl   == ctx.timeline
        last == tl[Len(tl)]
    IN IF tl = <<>>
       THEN user = <<"User input:", "\n">> \o TrimEnd(ctx.userInput)
       ELSE user = <<"User input:", "\n">> \o ctx.userInput
                   \o <<"\n", "\n", "Previous agent outputs:", "\n">>
                   \o BlocksOf(SubSeq(tl, 1, Len(tl) - 1))
                   \o <<"\n">> \o HeaderOf(last) \o TrimEnd(last.output)

\* a prompt built from two records of different agents whose outputs both
\* end in a newline
C29_Witness ==
  \E n \in 1..Len(promptLog) :
    LET tl == promptLog[n].context.timeline
    IN /\ Len(tl) = 2
       /\ tl[1].agentId # tl[2].agentId
       /\ tl[1].output = <<"t", "\n">>
       /\ tl[2].output = <<"t", "\n">>
       /\ promptLog[n].context.userInput = <<" ", "t">>

PhaseCalls(phase) == {k \in 1..Len(calls) : calls[k].phase = phase}

\* the convergence check has answered "not converged" every time it was asked
NeverConverged == \A j \in 1..Len(verdicts) : ~verdicts[j]

\* the run has not failed on its configuration or on the backend
Unfailed == pc # "failed"

\* C31: an iterative run whose convergence check never converges, with
\* max_iterations = k, ends only after exactly k cycles (k then calls and k
\* calls of every branch), and after the k-th cycle it has ended normally,
\* with no error, the context holding the k-th then output as the then
\* agent's output and as its last record.
C31_ExhaustionAfterKCyclesReturns ==
  (Iterative /\ NeverConverged /\ Unfailed) =>
    LET k == config.feedback_loop.max_iterations
    IN /\ Len(verdicts) <= k
       /\ pc = "done" <=> Len(verdicts) = k
       /\ pc = "done" =>
            /\ err = "none"
            /\ Cardinality(PhaseCalls("then")) = k
            /\ Cardinality(PhaseCalls("branch")) = k * Len(config.branches)
            /\ calls[Len(calls)].phase = "then"
            /\ calls[Len(calls)].status = "ok"
            /\ context.outputs[config.then] = calls[Len(calls)].output
            /\ context.timeline[Len(context.timeline)].output = calls[Len(calls)].output
            /\ Len(context.timeline) = k * (Len(config.branches) + 1)

\* C31 witness: two cycles of two branches ran without converging, the run
\* has returned, and the second then output differs from the first
C31_Witness ==
  /\ Iterative
  /\ pc = "done"
  /\ verdicts = <<FALSE, FALSE>>
  /\ config.feedback_loop.max_iterations = 2
  /\ Len(config.branches) = 2
  /\ context.timeline[3].output # context.timeline[6].output

\* then.feedback_loop.enabled is true in the configuration of the run
FeedbackLoopEnabledIsTrue ==
  /\ "feedback_loop" \in DOMAIN config
  /\ config.feedback_loop.enabled = TRUE

\* C39: once runWorkflow has dispatched, it has called exactly one strategy:
\* the sequential one for type sequential; for type parallel the iterative
\* one if then.feedback_loop.enabled is true and the standard parallel one
\* otherwise; no call of runWorkflow calls a second strategy, and the
\* feedback loop's convergence check is only asked in an iterative run.
C39_OneStrategyPerCall ==
  /\ Len(invoked) <= 1
  /\ verdicts # <<>> => invoked = <<"runIterativeParallelWorkflow">>
  /\ pc # "idle" =>
       /\ config.type = "sequential" => invoked = <<"runSequentialWorkflow">>
       /\ (config.type = "parallel" /\ FeedbackLoopEnabledIsTrue) =>
            invoked = <<"runIterativeParallelWorkflow">>
       /\ (config.type = "parallel" /\ ~FeedbackLoopEnabledIsTrue) =>
            invoked = <<"runParallelWorkflow">>

\* C39 witness: a parallel run whose feedback_loop is present but disabled has
\* completed under the standard parallel strategy
C39_Witness ==
  /\ config.type = "parallel"
  /\ "feedback_loop" \in DOMAIN config
  /\ ~config.feedback_loop.enabled
  /\ pc = "done"
  /\ invoked = <<"runParallelWorkflow">>
  /\ Len(context.timeline) = Len(config.branches) + 1

(* ------------------- properties of the context store ------------------ *)
\* sequence s is an initial part of sequence t
IsPrefix(s, t) ==
  /\ Len(s) <= Len(t)
  /\ \A j \in 1..Len(s) : s[j] = t[j]

\* C34: every step of a workflow run leaves the records already in the
\* timeline in place and unmodified (the old timeline is an initial part of
\* the new one), and leaves userInput as it is.
C34_TimelineAppendOnly ==
  [][/\ IsPrefix(context.timeline, context'.timeline)
     /\ context'.userInput = context.userInput]_vars

\* C34 witness: a parallel run has pushed the records of two branches of one
\* agent and the record of the then agent, the same agent again
C34_Witness ==
  /\ config.type = "parallel"
  /\ config.branches = <<"B", "B">>
  /\ config.then = "B"
  /\ pc = "done"
  /\ Len(context.timeline) = 3
  /\ context.timeline[1].output # context.timeline[3].output

\* the positions of the timeline records of agent id
RecordsOf(id) == {j \in 1..Len(context.timeline) : context.timeline[j].agentId = id}

\* the position of the last timeline record of agent id, 0 when there is none
LastRecordOf(id) ==
  IF RecordsOf(id) = {} THEN 0
  ELSE CHOOSE j \in RecordsOf(id) : \A i \in RecordsOf(id) : i <= j

\* C35: after a completed sequential or parallel run started from an empty
\* context, outputs[id] is the output of the last timeline record of id, for
\* every id in outputs, and every agentId of the timeline is a key of outputs.
C35_OutputsAreLatestRecords ==
  (pc = "done" /\ config.type \in {"sequential", "parallel"}) =>
    /\ \A id \in DOMAIN context.outputs :
         /\ LastRecordOf(id) # 0
         /\ context.outputs[id] = context.timeline[LastRecordOf(id)].output
    /\ \A j \in 1..Len(context.timeline) :
         context.timeline[j].agentId \in DOMAIN context.outputs

\* C35 witness: a completed sequential run of one agent three times, whose
\* last output differs from its earlier ones
C35_Witness ==
  /\ config.type = "sequential"
  /\ config.steps = <<"A", "A", "A">>
  /\ pc = "done"
  /\ context.timeline[1].output = <<"o1">>
  /\ context.timeline[2].output = <<"o1">>
  /\ context.timeline[3].output = <<"o2">>
  /\ context.outputs["A"] = <<"o2">>

\* the backend calls that have failed, by position in `calls`
FailedCalls == {k \in 1..Len(calls) : calls[k].status = "error"}

\* C38: when the backend call of step k of a sequential run has failed, the
\* run has ended with the backend error, the failed call is the last call
\* made (no later step is invoked), and the context holds exactly the
\* records and outputs of steps 1..k-1: one record per earlier step, in step
\* order, with the outputs those steps' calls returned, none for step k.
C38_SequentialFailureKeepsEarlierSteps ==
  (IsSequential /\ FailedCalls # {}) =>
    LET k == stepIdx
    IN /\ pc = "failed"
       /\ err = "backend"
       /\ FailedCalls = {k}
       /\ Len(calls) = k
       /\ calls[k].agentId = config.steps[k]
       /\ Len(context.timeline) = k - 1
       /\ \A j \in 1..(k - 1) :
            /\ calls[j].status = "ok"
            /\ context.timeline[j].agentId = config.steps[j]
            /\ context.timeline[j].output = calls[j].output
       /\ DOMAIN context.outputs = {config.steps[j] : j \in 1..(k - 1)}
       /\ \A id \in DOMAIN context.outputs :
            context.outputs[id] = context.timeline[LastRecordOf(id)].output

\* C38 witness: the third step's call failed after two steps were recorded,
\* the failing step's agent being the agent of the first step
C38_Witness ==
  /\ IsSequential
  /\ config.steps = <<"A", "B", "A">>
  /\ pc = "failed"
  /\ FailedCalls = {3}
  /\ Len(context.timeline) = 2
  /\ context.outputs["A"] = context.timeline[1].output

(* --------------- properties of generateWithTools, continued ----------- *)
\* the names of the tools the caller permits
PermittedTools == {params.tools[i].name : i \in 1..Len(params.tools)}

\* C36 (as claimed): a provider only runs for a tool named in params.tools.
C36_OnlyPermittedToolsRun ==
  \A j \in 1..Len(toolLog) :
     toolLog[j].providerRan => toolLog[j].toolName \in PermittedTools

\* what one executed tool call adds to the running prompt: the tool_result
\* block with the call's tool name, parameters and result
RenderedBlock(e) ==
  buildToolResultPrompt(<<>>, [toolName |-> e.toolName, parameters |-> e.parameters], e.result)

\* the rendered blocks of the first n executed tool calls, in execution order
RECURSIVE RenderedBlocks(_)
RenderedBlocks(n) ==
  IF n = 0 THEN <<>> ELSE RenderedBlocks(n - 1) \o RenderedBlock(toolLog[n])

\* C37: the user prompt of the k-th backend call of a run is the original
\* user prompt followed by the rendered blocks of the k-1 tool calls executed
\* before it, in execution order, and every round's system prompt is the one
\* of the first round.
C37_PromptAccumulatesBlocks ==
  \A k \in 1..Len(llmLog) :
     /\ Len(toolLog) >= k - 1
     /\ \A j \in 1..(k - 1) : toolLog[j].status = "returned" /\ toolLog[j].round = j
     /\ llmLog[k].user = params.user \o RenderedBlocks(k - 1)
     /\ llmLog[k].system = llmLog[1].system

\* C37 witness: the third round's call has been issued after two tool calls
\* with different results, the first one run by a provider, the second one
\* answered by the registry for an unknown tool
C37_Witness ==
  /\ Len(llmLog) = 3
  /\ Len(toolLog) >= 2
  /\ toolLog[1].toolName = "filesystem"
  /\ toolLog[1].result.success
  /\ toolLog[2].toolName = "nosuch"
  /\ ~toolLog[2].result.success
  /\ params.tools # <<>>

(* ------------- properties of CodeExecutionTool, continued ------------- *)
\* C40 (as claimed): a returned call reports the timed-out message only if
\* its script ran beyond the timeout, the memory-limit message only if its
\* script exceeded the memory ceiling, and a script that threw its own
\* exception is reported with that exception's message, whatever it says.
C40_CategoriesMatchCauses ==
  \A c \in Callers :
    (execs[c].pc = "returned" /\ ScriptRan(c)) =>
      /\ execs[c].result.error = TimeoutMessage => execs[c].code = "spin"
      /\ execs[c].result.error = MemoryMessage => execs[c].code = "hog"
      /\ execs[c].code \in {"throw", "throwTimeout"} =>
           /\ ~execs[c].result.success
           /\ execs[c].result.error = ThrownBy(execs[c].code)

(* ------------------- properties of the FilesystemTool ----------------- *)
\* path p is the directory dir or lies under it
Inside(p, dir) == p = dir \/ startsWith(p, dir \o <<Sep>>)

\* the call left the disk as it was and called no fs function
NoFilesystemEffect(e) == e.ops = <<>> /\ e.after = e.before

\* C32 (as claimed): no call of execute calls an fs function on a path
\* outside the working directory (the mkdir of a written file's parent
\* directory left aside); a params.path that resolves outside it returns
\* success=false with "Path outside working directory" and has no
\* filesystem effect.
C32_NeverOutsideWorkingDirectory ==
  \A j \in 1..Len(fsLog) :
     LET e == fsLog[j]
     IN /\ \A k \in 1..Len(e.ops) :
             e.ops[k].fn # "mkdir" => Inside(e.ops[k].path, fsTool.workingDirectory)
        /\ ~Inside(e.resolvedPath, fsTool.workingDirectory) =>
             /\ ~e.result.success
             /\ e.result.error = <<"Path outside working directory">>
             /\ NoFilesystemEffect(e)

\* the fs functions that read, write, check or delete a file
FileFunctions == {"readFile", "stat", "writeFile", "access", "unlink"}

\* C33 (as claimed): a call of an operation other than list on a path whose
\* extension is not in allowedExtensions returns success=false and has no
\* filesystem effect, and every file read, written, checked or deleted has
\* an extension in allowedExtensions. (Paths that name a directory are left
\* aside: the statement is about files.)
C33_OnlyWhitelistedExtensions ==
  \A j \in 1..Len(fsLog) :
     LET e == fsLog[j]
     IN /\ (/\ e.params.operation # "list"
             /\ ~IsDirectory(e.before, e.resolvedPath)
             /\ extname(e.resolvedPath) \notin fsTool.allowedExtensions) =>
               ~e.result.success /\ NoFilesystemEffect(e)
        /\ \A k \in 1..Len(e.ops) :
             (/\ e.ops[k].fn \in FileFunctions
              /\ IsFile(e.before, e.ops[k].path) \/ IsFile(e.after, e.ops[k].path)) =>
               extname(e.ops[k].path) \in fsTool.allowedExtensions
====
